---- MODULE Spec2Model ----
(***************************************************************************)
(* A state-machine model of serena-cli-go: the orchestrator's tool-calling *)
(* loop (internal/orchestrator), the session store (internal/session) and  *)
(* the interactive caller (cmd/serena: REPL, sessions, compaction).        *)
(*                                                                         *)
(* Strings are TLA+ strings; Len, \o and SubSeq act on them as Go's len,   *)
(* + and slicing act on ASCII strings.                                     *)
(***************************************************************************)
EXTENDS Integers, Sequences, FiniteSets, TLC

VARIABLES
    pc,          \* position of main()/runREPL/Chat
    messages,    \* Orchestrator.messages
    tools,       \* Orchestrator.tools: names of the advertised tool definitions
    local,       \* Orchestrator.local: names that have a local handler
    model,       \* llm.Client.model
    handler,     \* Orchestrator.events: the callbacks that are set ({}: none or nil)
    eventLog,    \* events delivered to the handler since the turn began
    toolChoice,  \* tool-choice directive of the last completion request
    toolCalls,   \* Chat's local toolCalls: the batch being executed
    idx,         \* 1-based position in toolCalls of the call being handled
    inflight,    \* positions of tool invocations started and not yet returned
    lastOut,     \* what the tool invocation that returned last did
    result,      \* what the last Chat call returned
    pre,         \* the conversation at the start of the last operation
    op,          \* the last operation begun
    nCompl,      \* completion calls made in the current turn
    nInvoke,     \* tool invocations performed in the current turn
    nReturned,   \* tool calls returned by the completion endpoint in the turn
    fs,          \* the session directory: file name -> content
    name,        \* SessionState.name
    data,        \* SessionState.data (the in-memory record)
    launches,    \* how many times the program has been started
    cmdErr,      \* the error the last command returned ("" for none)
    now,         \* the wall clock (time.Now), in ticks; 0 is the zero time
    arg,         \* the name a session or store call is given
    lastCompact, \* what the last turn or /compact did about compaction
    listed,      \* what the last Store.List returned
    twin,        \* a recorded run of Chat and the answers its endpoints give
    ui           \* ConsoleUI: its mutex, spinnerStop, the channels and goroutines

vars == <<pc, messages, tools, local, model, handler, eventLog, toolChoice,
          toolCalls, idx, inflight, lastOut, result, pre, op, nCompl, nInvoke,
          nReturned, fs, name, data, launches, cmdErr, now, arg, lastCompact,
          listed, twin, ui>>

chatVars == <<toolChoice, toolCalls, idx, inflight, lastOut, result, nCompl, nInvoke,
              nReturned, eventLog>>
sessionVars == <<fs, name, data, now, arg, lastCompact, listed, twin, ui>>

(***************************************************************************)
(* Bounds of the model.                                                    *)
(***************************************************************************)
MaxMsgs == 7        \* Spec: longest conversation a turn may be started on
MaxReplMsgs == 8    \* SpecRepl: the same, long enough for a compaction
MaxArchive == 1     \* compactions that may append to one archive file
MaxSessionMsgs == 3 \* messages of a conversation under SpecSessions
MaxLaunches == 2    \* process launches
MaxContext == 1     \* injected context messages in one conversation

(***************************************************************************)
(* String helpers (package strings).                                       *)
(***************************************************************************)
Char(s, i) == SubSeq(s, i, i)

HasPrefixAt(s, p, i) ==
    /\ i >= 1
    /\ i + Len(p) - 1 <= Len(s)
    /\ SubSeq(s, i, i + Len(p) - 1) = p

HasPrefix(s, p) == HasPrefixAt(s, p, 1)

\* strings.Index from position `from`; 0 when p does not occur.
IndexFrom(s, p, from) ==
    LET hits == {i \in from..Len(s) : HasPrefixAt(s, p, i)}
    IN  IF hits = {} THEN 0 ELSE CHOOSE i \in hits : \A j \in hits : i <= j

Contains(s, p) == IndexFrom(s, p, 1) # 0

IsSpace(c) == c \in {" ", "\n", "\t", "\r"}

RECURSIVE TrimLeft(_)
TrimLeft(s) ==
    IF Len(s) > 0 /\ IsSpace(Char(s, 1)) THEN TrimLeft(SubSeq(s, 2, Len(s))) ELSE s

RECURSIVE TrimRight(_)
TrimRight(s) ==
    IF Len(s) > 0 /\ IsSpace(Char(s, Len(s)))
    THEN TrimRight(SubSeq(s, 1, Len(s) - 1)) ELSE s

TrimSpace(s) == TrimRight(TrimLeft(s))

UpperChars == "ABCDEFGHIJKLMNOPQRSTUVWXYZ"
LowerChars == "abcdefghijklmnopqrstuvwxyz"
DigitChars == "0123456789"

CharSet(s) == {Char(s, i) : i \in 1..Len(s)}
UpperSet == CharSet(UpperChars)
LowerSet == CharSet(LowerChars)
DigitSet == CharSet(DigitChars)

\* unicode.ToLower on one ASCII character.
LowerOf == [c \in UpperSet |-> Char(LowerChars, IndexFrom(UpperChars, c, 1))]
ToLowerChar(c) == IF c \in UpperSet THEN LowerOf[c] ELSE c

RECURSIVE ToLower(_)
\* strings.ToLower, character by character.
ToLower(s) ==
    IF Len(s) = 0 THEN "" ELSE ToLowerChar(Char(s, 1)) \o ToLower(SubSeq(s, 2, Len(s)))

(***************************************************************************)
(* Messages (openai.ChatCompletionMessage, openai.ToolCall).               *)
(***************************************************************************)
Msg(role, content) ==
    [role |-> role, content |-> content, tool_calls |-> <<>>, tool_call_id |-> ""]

AssistantMsg(content, calls) ==
    [role |-> "assistant", content |-> content, tool_calls |-> calls,
     tool_call_id |-> ""]

\* Faulty variant: the tool message does not carry the id of its call.
ToolMsgUnlinked(content, id) ==
    [role |-> "tool", content |-> content, tool_calls |-> <<>>, tool_call_id |-> ""]

ToolMsg(content, id) ==
    [role |-> "tool", content |-> content, tool_calls |-> <<>>, tool_call_id |-> id]

ToolCall(id, fname, arguments) ==
    [id |-> id, type |-> "function", name |-> fname, arguments |-> arguments]

(***************************************************************************)
(* Pure functions of internal/orchestrator.                                *)
(***************************************************************************)
wrapUserTask(userMsg) ==
    LET trimmed == TrimSpace(userMsg)
    IN  IF trimmed = "" THEN "<task></task>"
        ELSE "<task>\n<request>\n" \o trimmed
             \o "\n</request>\n<guidance>\n- Focus on the user's request.\n- Use tools only when necessary.\n- Ask a clarifying question if the request is ambiguous.\n</guidance>\n</task>"

RECURSIVE ReplaceThink(_)
\* thinkTagPattern.ReplaceAllString(content, ""): every leftmost, shortest
\* <think>...</think> span is removed.
ReplaceThink(s) ==
    LET open == IndexFrom(s, "<think>", 1)
        close == IF open = 0 THEN 0 ELSE IndexFrom(s, "</think>", open + 7)
    IN  IF open = 0 \/ close = 0 THEN s
        ELSE SubSeq(s, 1, open - 1) \o ReplaceThink(SubSeq(s, close + 8, Len(s)))

\* Faulty variant: the reasoning segments stay in the text.
keepThinkTags(content) == content

stripThinkTags(content) ==
    IF content = "" THEN content ELSE TrimSpace(ReplaceThink(content))

\* json.Unmarshal of the arguments text into a map[string]interface{}:
\* succeeds on a JSON object and on null, fails on every other text.
JSONObjects == {"{}", "{\"query\":\"x\"}", "{\"query\":\"list\"}",
                "{\"relative_path\":\".\"}"}
JSONOtherValues == {"[1]", "3", "\"s\"", "true"}
IsValidJSON(raw) == raw \in JSONObjects \cup JSONOtherValues \cup {"null"}
UnmarshalArgsFails(raw) == ~(raw \in JSONObjects \cup {"null"})

\* Faulty variant: the arguments are never checked.
ParseArgsNeverFails(raw) == FALSE

\* The arguments check at the head of executeToolCall: TRUE when it returns
\* the "failed to parse tool arguments" error.
ParseArgsFails(raw) == raw # "" /\ UnmarshalArgsFails(raw)

\* An executeToolCall that never consults the local handlers.
NoLocalHandlers(fname) == TRUE

localToolHandlerNil(fname) == ~(fname \in local)

\* formatToolResult on a remote result [content: sequence of blocks, isError].
RECURSIVE JoinBlocks(_)
JoinBlocks(blocks) ==
    IF blocks = <<>> THEN ""
    ELSE LET c == Head(blocks)
             piece == CASE c.type = "text" -> c.text
                        [] c.type = "image" -> "[Image: " \o c.mime \o "]"
                        [] c.type = "resource" -> c.text
                        [] OTHER -> ""
         IN  piece \o JoinBlocks(Tail(blocks))

\* Faulty variant: a result flagged as an error is rendered like any other.
formatToolResultPlain(res) == JoinBlocks(res.content)

formatToolResult(res) ==
    IF res.isError THEN "Error: " \o JoinBlocks(res.content)
    ELSE JoinBlocks(res.content)

hasTool(fname) == \E i \in 1..Len(tools) : tools[i] = fname

\* Tool-choice directives: nil, "auto", or openai.ToolChoice{Function: name}.
ToolChoiceNil == [type |-> "nil", name |-> ""]
ToolChoiceAuto == [type |-> "auto", name |-> ""]
ToolChoiceFn(fname) == [type |-> "function", name |-> fname]

\* A selectToolChoice that forces the tool of the first matching phrase
\* without looking it up in the advertised tools.
selectToolChoiceUnchecked(userMsg) ==
    LET lower == ToLower(userMsg)
        AnyOf(ps) == \E p \in ps : Contains(lower, p)
    IN  IF Len(tools) = 0 THEN ToolChoiceNil
        ELSE IF AnyOf({"activate project", "activate_project"})
            THEN ToolChoiceFn("activate_project")
        ELSE IF AnyOf({"readme", "read file", "read the file"})
            THEN ToolChoiceFn("read_file")
        ELSE IF AnyOf({"list files", "list dir", "list directory"})
            THEN ToolChoiceFn("list_dir")
        ELSE IF AnyOf({"find file"})
            THEN ToolChoiceFn("find_file")
        ELSE IF AnyOf({"search"})
            THEN ToolChoiceFn("search_for_pattern")
        ELSE IF AnyOf({"create a script", "create script", "create a file", "write a file"})
            THEN ToolChoiceFn("create_text_file")
        ELSE ToolChoiceAuto

selectToolChoice(userMsg) ==
    LET lower == ToLower(userMsg)
        AnyOf(ps) == \E p \in ps : Contains(lower, p)
    IN  IF Len(tools) = 0 THEN ToolChoiceNil
        ELSE IF AnyOf({"activate project", "activate_project"}) /\ hasTool("activate_project")
            THEN ToolChoiceFn("activate_project")
        ELSE IF AnyOf({"readme", "read file", "read the file"}) /\ hasTool("read_file")
            THEN ToolChoiceFn("read_file")
        ELSE IF AnyOf({"list files", "list dir", "list directory"}) /\ hasTool("list_dir")
            THEN ToolChoiceFn("list_dir")
        ELSE IF AnyOf({"find file"}) /\ hasTool("find_file")
            THEN ToolChoiceFn("find_file")
        ELSE IF AnyOf({"search"}) /\ hasTool("search_for_pattern")
            THEN ToolChoiceFn("search_for_pattern")
        ELSE IF AnyOf({"create a script", "create script", "create a file", "write a file"})
                /\ hasTool("create_text_file")
            THEN ToolChoiceFn("create_text_file")
        ELSE ToolChoiceAuto

\* What Client.ChatWithOptions puts in the request for a directive.
RequestToolChoice(choice) ==
    IF Len(tools) > 0
    THEN (IF choice = ToolChoiceNil THEN ToolChoiceAuto ELSE choice)
    ELSE [type |-> "unset", name |-> ""]

(***************************************************************************)
(* Events (emitStatus, emitToolStart, emitToolEnd).                        *)
(***************************************************************************)
ConsoleCallbacks == {"OnStatus", "OnToolStart", "OnToolEnd"}

\* The callback an event goes to.
Callback(kind) ==
    CASE kind = "status" -> "OnStatus"
      [] kind = "tool_start" -> "OnToolStart"
      [] OTHER -> "OnToolEnd"

\* emitStatus, emitToolStart, emitToolEnd: the callback is called when the
\* handler and that callback are set.
Emit(log, ev) == IF Callback(ev.kind) \in handler THEN Append(log, ev) ELSE log

StatusEvent == [kind |-> "status", name |-> model, isError |-> FALSE]
ToolStartEvent(fname) == [kind |-> "tool_start", name |-> fname, isError |-> FALSE]
ToolEndEvent(fname, isError) == [kind |-> "tool_end", name |-> fname, isError |-> isError]

(***************************************************************************)
(* internal/session: stored records and the conversions.                   *)
(***************************************************************************)
StoredCall(call) == [id |-> call.id, name |-> call.name, arguments |-> call.arguments]

StoredMsg(msg) ==
    [role |-> msg.role, content |-> msg.content,
     tool_calls |-> [i \in 1..Len(msg.tool_calls) |-> StoredCall(msg.tool_calls[i])],
     tool_call_id |-> msg.tool_call_id]

\* FromOpenAIMessages: index 0 is skipped when its role is system.
FromOpenAIMessages(msgs) ==
    LET skip == Len(msgs) > 0 /\ msgs[1].role = "system"
        rest == IF skip THEN SubSeq(msgs, 2, Len(msgs)) ELSE msgs
    IN  [i \in 1..Len(rest) |-> StoredMsg(rest[i])]

\* A rebuilt message that loses its tool calls.
OpenAIMsgWithoutCalls(st) ==
    [role |-> st.role, content |-> st.content, tool_calls |-> <<>>,
     tool_call_id |-> st.tool_call_id]

OpenAIMsg(st) ==
    [role |-> st.role, content |-> st.content,
     tool_calls |-> [i \in 1..Len(st.tool_calls) |->
                        ToolCall(st.tool_calls[i].id, st.tool_calls[i].name,
                                 st.tool_calls[i].arguments)],
     tool_call_id |-> st.tool_call_id]

\* Faulty variant: the rebuilt conversation has no system message in front.
ToOpenAIMessagesBare(systemPrompt, stored) ==
    [i \in 1..Len(stored) |-> OpenAIMsg(stored[i])]

ToOpenAIMessages(systemPrompt, stored) ==
    <<Msg("system", systemPrompt)>> \o [i \in 1..Len(stored) |-> OpenAIMsg(stored[i])]

\* The rune filter shared by both sanitizers.
KeepRune(c) ==
    IF \/ c \in LowerSet
       \/ c \in DigitSet
       \/ c \in {"-", "_", "."}
    THEN c ELSE ""

SpaceToDash(c) == IF c = " " THEN "-" ELSE c

\* A filter pass that drops spaces instead of turning them into dashes.
RECURSIVE MapRunesDroppingSpaces(_)
MapRunesDroppingSpaces(s) ==
    IF Len(s) = 0 THEN ""
    ELSE KeepRune(Char(s, 1)) \o MapRunesDroppingSpaces(SubSeq(s, 2, Len(s)))

RECURSIVE MapRunes(_)
\* strings.ReplaceAll(" ", "-") and strings.Map with the rune filter: a rune the
\* filter maps to "" is dropped.
MapRunes(s) ==
    IF Len(s) = 0 THEN ""
    ELSE KeepRune(SpaceToDash(Char(s, 1))) \o MapRunes(SubSeq(s, 2, Len(s)))

\* internal/session sanitizeName.
sanitizeName(raw) ==
    LET trimmed == TrimSpace(raw)
        mapped == MapRunes(ToLower(trimmed))
    IN  IF trimmed = "" THEN "default"
        ELSE IF mapped = "" THEN "default" ELSE mapped

defaultSessionName == "default"

\* A caller-layer sanitizer that does not trim the name first.
sanitizeSessionNameUntrimmed(raw) ==
    LET mapped == MapRunes(ToLower(raw))
    IN  IF raw = "" THEN defaultSessionName
        ELSE IF mapped = "" THEN defaultSessionName ELSE mapped

\* cmd/serena sanitizeSessionName.
sanitizeSessionName(raw) ==
    LET trimmed == TrimSpace(raw)
        mapped == MapRunes(ToLower(trimmed))
    IN  IF trimmed = "" THEN defaultSessionName
        ELSE IF mapped = "" THEN defaultSessionName ELSE mapped

\* A store that names the file after the requested name as it is.
PathOfRawName(sessionName) == sessionName \o ".json"

\* Store.Path, relative to the session directory.
Path(sessionName) == sanitizeName(sessionName) \o ".json"

NoData == [name |-> "", model |-> "", system_prompt |-> "", messages |-> <<>>,
           archive_file |-> "", summary_file |-> "", created_at |-> 0,
           updated_at |-> 0, nil |-> TRUE]

Exists(fsys, file) == file \in DOMAIN fsys

WriteFile(fsys, file, content) ==
    [f \in DOMAIN fsys \cup {file} |-> IF f = file THEN content ELSE fsys[f]]

RemoveFile(fsys, file) == [f \in DOMAIN fsys \ {file} |-> fsys[f]]

\* A Save that stamps created_at every time.
StampBoth(rec, t) == [rec EXCEPT !.created_at = t, !.updated_at = t]

\* Store.Save stamps the record it is handed: created_at once, updated_at
\* every time.  `t` is time.Now().
Stamp(rec, t) ==
    [rec EXCEPT !.created_at = IF @ = 0 THEN t ELSE @, !.updated_at = t]

\* Store.Save: the record is written to the file its name sanitizes to.
StoreSave(fsys, rec, t) == WriteFile(fsys, Path(rec.name), Stamp(rec, t))

SystemPrompt(msgs) == IF Len(msgs) = 0 THEN "" ELSE msgs[1].content

\* SessionState.SaveFromOrch: the record refreshed from the orchestrator.
SaveFromOrchData(dat, msgs, mdl, t) ==
    IF dat.nil THEN dat
    ELSE Stamp([dat EXCEPT !.model = mdl,
                           !.system_prompt = SystemPrompt(msgs),
                           !.messages = FromOpenAIMessages(msgs)], t)

SaveFromOrchFs(fsys, dat, msgs, mdl, t) ==
    IF dat.nil THEN fsys ELSE StoreSave(fsys, SaveFromOrchData(dat, msgs, mdl, t), t)

\* A loadOrCreate that never looks for a stored record.
loadOrCreateAlwaysNew(raw, fsys, msgs, mdl, t) ==
    LET sessionName == sanitizeSessionName(raw)
        created == [name |-> sessionName, model |-> mdl,
                    system_prompt |-> SystemPrompt(msgs), messages |-> <<>>,
                    archive_file |-> sessionName \o "_archive.txt",
                    summary_file |-> sessionName \o "_summary.md",
                    created_at |-> 0, updated_at |-> 0, nil |-> FALSE]
    IN  [name |-> sessionName, data |-> Stamp(created, t),
         fs |-> StoreSave(fsys, created, t), model |-> mdl,
         messages |-> ToOpenAIMessages(SystemPrompt(msgs), <<>>), err |-> ""]

\* A Load that reports no error on a record file it cannot decode.
StoreLoadErrIgnored(fsys, sessionName) == ""

\* The error of Store.Load on a record file that is there: json.Unmarshal
\* fails on a file that holds no record (written here as NoData).
StoreLoadErr(fsys, sessionName) ==
    IF Exists(fsys, Path(sessionName)) /\ fsys[Path(sessionName)].nil
    THEN "parse session: invalid character"
    ELSE ""

\* SessionState.loadOrCreate: [name, data, fs, model, messages] afterwards,
\* and the error it returns; it returns the error of Load before it assigns
\* anything.
loadOrCreate(raw, fsys, msgs, mdl, t) ==
    LET sessionName == sanitizeSessionName(raw)
        found == Exists(fsys, Path(sessionName))
        created == [name |-> sessionName, model |-> mdl,
                    system_prompt |-> SystemPrompt(msgs), messages |-> <<>>,
                    archive_file |-> sessionName \o "_archive.txt",
                    summary_file |-> sessionName \o "_summary.md",
                    created_at |-> 0, updated_at |-> 0, nil |-> FALSE]
        dat == IF found THEN fsys[Path(sessionName)] ELSE Stamp(created, t)
        fsys2 == IF found THEN fsys ELSE StoreSave(fsys, created, t)
        mdl2 == IF dat.model # "" /\ dat.model # mdl THEN dat.model ELSE mdl
    IN  [name |-> sessionName, data |-> dat, fs |-> fsys2, model |-> mdl2,
         messages |-> ToOpenAIMessages(SystemPrompt(msgs), dat.messages),
         err |-> StoreLoadErr(fsys, sessionName)]

(***************************************************************************)
(* ConversationStats and the compaction policy.                            *)
(***************************************************************************)
contextLimitTokens == 200000
keep == 6

RECURSIVE CallChars(_)
CallChars(calls) ==
    IF calls = <<>> THEN 0
    ELSE Len(Head(calls).name) + Len(Head(calls).arguments) + CallChars(Tail(calls))

RECURSIVE CharCount(_)
CharCount(msgs) ==
    IF msgs = <<>> THEN 0
    ELSE Len(Head(msgs).content) + CallChars(Head(msgs).tool_calls) + CharCount(Tail(msgs))

RECURSIVE ToolCallCount(_)
ToolCallCount(msgs) ==
    IF msgs = <<>> THEN 0 ELSE Len(Head(msgs).tool_calls) + ToolCallCount(Tail(msgs))

\* Statistics whose token estimate rounds up.
ConversationStatsRoundingUp(msgs) ==
    [MessageCount |-> Len(msgs), ToolCallCount |-> ToolCallCount(msgs),
     CharCount |-> CharCount(msgs),
     ApproxTokens |-> (CharCount(msgs) + 3) \div 4]

ConversationStats(msgs) ==
    [MessageCount |-> Len(msgs), ToolCallCount |-> ToolCallCount(msgs),
     CharCount |-> CharCount(msgs),
     ApproxTokens |-> IF CharCount(msgs) > 0 THEN CharCount(msgs) \div 4 ELSE 0]

\* int(float64(contextLimitTokens) * autoCompactThreshold), the threshold 0.9.
autoCompactTokens == (contextLimitTokens * 9) \div 10

\* A trigger that needs more than the threshold.
ShouldAutoCompactAbove(msgs) == ConversationStats(msgs).ApproxTokens > autoCompactTokens

ShouldAutoCompact(msgs) == ~(ConversationStats(msgs).ApproxTokens < autoCompactTokens)

RECURSIVE CallLines(_)
CallLines(calls) ==
    IF calls = <<>> THEN ""
    ELSE "tool_call: " \o Head(calls).name \o " " \o Head(calls).arguments \o "\n"
         \o CallLines(Tail(calls))

RECURSIVE TranscriptBody(_)
TranscriptBody(msgs) ==
    IF msgs = <<>> THEN ""
    ELSE LET m == Head(msgs)
             role == IF m.role = "" THEN "unknown" ELSE m.role
         IN  "[" \o role \o "]\n"
             \o (IF m.content # "" THEN m.content \o "\n" ELSE "")
             \o CallLines(m.tool_calls) \o "\n"
             \o TranscriptBody(Tail(msgs))

buildTranscript(msgs) == TrimSpace(TranscriptBody(msgs))

\* An AppendArchive that truncates the archive file before it writes.
AppendArchiveTruncating(fsys, dat, content, t) ==
    IF content = "" \/ dat.nil \/ dat.archive_file = "" THEN fsys
    ELSE WriteFile(fsys, dat.archive_file,
                   <<[header |-> "Compaction at", at |-> t, body |-> content \o "\n"]>>)

\* SessionState.AppendArchive: one headed entry is appended to the archive file.
AppendArchive(fsys, dat, content, t) ==
    IF content = "" \/ dat.nil \/ dat.archive_file = "" THEN fsys
    ELSE LET old == IF Exists(fsys, dat.archive_file) THEN fsys[dat.archive_file] ELSE <<>>
         IN  WriteFile(fsys, dat.archive_file,
                       Append(old, [header |-> "Compaction at", at |-> t,
                                    body |-> content \o "\n"]))

\* SessionState.WriteSummary: the summary file is overwritten.
WriteSummary(fsys, dat, content) ==
    IF dat.nil \/ dat.summary_file = "" THEN fsys
    ELSE WriteFile(fsys, dat.summary_file, content)

ArchivePath(dat) == IF dat.nil THEN "" ELSE dat.archive_file

\* A summary message without the wrapper and the archive hint.
SummaryMsgBare(summary, dat) == Msg("assistant", TrimSpace(summary))

SummaryMsg(summary, dat) ==
    Msg("assistant",
        "<summary>\n" \o TrimSpace(summary) \o "\n</summary>\n<archive>\n"
        \o ArchivePath(dat) \o "\nUse session_search to look up details.\n</archive>")

\* A compactSession that asks for the summary and writes it before it looks
\* at the size of the conversation.
compactSessionSummarizesFirst(msgs, fsys, dat, mdl, fault, reply, t) ==
    [messages |-> msgs, fs |-> WriteSummary(fsys, dat, stripThinkTags(reply)),
     data |-> dat,
     err |-> IF Len(msgs) - 1 <= keep THEN "not enough history to compact" ELSE "",
     summarized |-> TRUE]

\* compactSession: [messages, fs, data, err, summarized] afterwards.  `fault`
\* is the step that fails ("none", "summarize", "archive", "summary"); `reply`
\* is the text the summarization call returns; `summarized` tells whether
\* Orchestrator.Summarize was called.
compactSession(msgs, fsys, dat, mdl, fault, reply, t) ==
    LET same(e, called) == [messages |-> msgs, fs |-> fsys, data |-> dat, err |-> e,
                            summarized |-> called]
        older == SubSeq(msgs, 2, Len(msgs) - keep)
        recent == SubSeq(msgs, Len(msgs) - keep + 1, Len(msgs))
        transcript == buildTranscript(older)
        summary == stripThinkTags(reply)
        fs1 == AppendArchive(fsys, dat, transcript, t)
        fs2 == WriteSummary(fs1, dat, summary)
        newMessages == <<msgs[1], SummaryMsg(summary, dat)>> \o recent
    IN  IF Len(msgs) < 4 THEN same("not enough messages to compact yet", FALSE)
        ELSE IF Len(msgs) - 1 <= keep
            THEN same("not enough history to compact (need more than 6 messages)", FALSE)
        ELSE IF transcript = "" THEN same("nothing to compact", FALSE)
        ELSE IF fault = "summarize" THEN same("summarize", TRUE)
        ELSE IF fault = "archive" THEN same("archive", TRUE)
        ELSE IF fault = "summary"
            THEN [messages |-> msgs, fs |-> fs1, data |-> dat, err |-> "summary",
                  summarized |-> TRUE]
        ELSE [messages |-> newMessages,
              fs |-> SaveFromOrchFs(fs2, dat, newMessages, mdl, t),
              data |-> SaveFromOrchData(dat, newMessages, mdl, t),
              err |-> "", summarized |-> TRUE]

\* What a run of compactSession did: who ran it ("command" for /compact,
\* "auto" for maybeAutoCompact, "skipped" when maybeAutoCompact returned
\* below the threshold, "none" when neither has run) and its outcome.
NoCompact == [by |-> "none", err |-> "", summarized |-> FALSE]

SkippedCompact == [by |-> "skipped", err |-> "", summarized |-> FALSE]

CompactRun(by, c) == [by |-> by, err |-> c.err, summarized |-> c.summarized]

(***************************************************************************)
(* executeToolCall.  `out` is what the invoked tool does: for a local      *)
(* handler [kind: "ok" | "err", text]; for the remote transport            *)
(* [kind: "result", content, isError] or [kind: "transport" | "timeout"],  *)
(* the two ways CallTool returns an error.                                 *)
(***************************************************************************)
Outcome(kind, text, content, isError) ==
    [kind |-> kind, text |-> text, content |-> content, isError |-> isError]

NoOutcome == Outcome("none", "", <<>>, FALSE)

Returned(text, isError, err) == [result |-> text, isError |-> isError, err |-> err]

executeToolCall(call, out) ==
    IF ParseArgsFails(call.arguments)
    THEN Returned("", FALSE, "failed to parse tool arguments")
    ELSE IF ~localToolHandlerNil(call.name)
    THEN IF out.kind = "err"
         THEN Returned("Error: " \o out.text, TRUE, "")
         ELSE Returned(out.text, FALSE, "")
    ELSE IF out.kind # "result"
    THEN Returned("", FALSE, "MCP tool call failed")
    ELSE Returned(formatToolResult(out), out.isError, "")

\* Faulty variant: the loop dispatches a call and moves on.
DispatchWithoutWaiting == FALSE

\* Chat calls executeToolCall synchronously: the loop waits for its return.
BlocksOnCall == TRUE

ChatError(cause) == [status |-> "err", text |-> "", cause |-> cause]
ChatOk(text) == [status |-> "ok", text |-> text, cause |-> ""]
NoResult == [status |-> "none", text |-> "", cause |-> ""]

(***************************************************************************)
(* Start-up: main().                                                       *)
(***************************************************************************)
\* No run of Chat has been recorded.
NoTwin == [phase |-> 0, script |-> <<>>, first |-> <<>>]

\* The goroutines that call into the ConsoleUI.  The program calls from the
\* main goroutine only; the mutex is there for more, and two are modelled.
Callers == {1, 2}

\* NewConsoleUI: the mutex is free (mu = 0) and spinnerStop is nil (0).
\* closes[g] counts the close() calls on the g-th channel made, spin[g] is
\* the goroutine started with it, at[c] and doing[c] are where caller c is.
NewConsoleUI ==
    [mu |-> 0, spinnerStop |-> 0, made |-> 0, closes |-> <<>>, spin |-> <<>>,
     at |-> [c \in Callers |-> "idle"], doing |-> [c \in Callers |-> ""]]

\* orchestrator.New: the state of a fresh process; the session directory is
\* what earlier processes left.
Constructed ==
    /\ pc = "new"
    /\ messages = <<>>
    /\ tools = <<>>
    /\ local = {}
    /\ model = "zai-org/GLM-4.7-TEE"
    /\ handler = {}
    /\ ui = NewConsoleUI
    /\ eventLog = <<>>
    /\ toolChoice = ToolChoiceNil
    /\ toolCalls = <<>>
    /\ idx = 0
    /\ inflight = {}
    /\ lastOut = NoOutcome
    /\ result = NoResult
    /\ pre = <<>>
    /\ op = "new"
    /\ nCompl = 0
    /\ nInvoke = 0
    /\ nReturned = 0
    /\ name = ""
    /\ data = NoData
    /\ cmdErr = ""
    /\ lastCompact = NoCompact
    /\ listed = <<>>
    /\ twin = NoTwin

Init ==
    /\ Constructed
    /\ fs = <<>>
    /\ now = 1
    /\ arg = ""
    /\ launches = 1

buildFallbackPrompt(mcpTools) ==
    LET RECURSIVE Lines(_)
        Lines(ts) == IF ts = <<>> THEN "" ELSE "- " \o Head(ts) \o "\n" \o Lines(Tail(ts))
    IN  "You are Serena CLI.\nAvailable tools:\n" \o Lines(mcpTools)

\* Orchestrator.Initialize with the remote tool list and the server's
\* instructions.
Initialize(mcpTools, instructions) ==
    /\ pc = "new"
    /\ tools' = mcpTools
    /\ messages' = <<Msg("system",
                         IF instructions = "" THEN buildFallbackPrompt(mcpTools)
                         ELSE instructions)>>
    /\ pc' = "initialized"
    /\ op' = "initialize"
    /\ pre' = messages
    /\ UNCHANGED <<local, model, handler, chatVars, sessionVars, launches, cmdErr>>

\* Connect or ListTools fails: main prints the error and exits.
InitializeFails ==
    /\ pc = "new"
    /\ pc' = "exited"
    /\ op' = "initialize"
    /\ UNCHANGED <<messages, tools, local, model, handler, chatVars, pre,
                   sessionVars, launches, cmdErr>>

\* Orchestrator.AddLocalTool: [tools, local] afterwards.
AddLocalTool(ts, loc, fname) == [tools |-> Append(ts, fname), local |-> loc \cup {fname}]

\* initSessionState: the default session is loaded or created, then
\* registerSessionTools adds the archive-search tool.
InitSessionState ==
    /\ pc = "initialized"
    /\ LET r == loadOrCreate(defaultSessionName, fs, messages, model, now)
           t == AddLocalTool(tools, local, "session_search")
       IN  /\ name' = r.name
           /\ data' = r.data
           /\ fs' = r.fs
           /\ model' = r.model
           /\ messages' = r.messages
           /\ tools' = t.tools
           /\ local' = t.local
    /\ pc' = "sessions"
    /\ op' = "load"
    /\ pre' = messages
    /\ UNCHANGED <<handler, chatVars, launches, cmdErr, now, arg, lastCompact, listed, twin, ui>>

\* attachConsoleUI, then runREPL reaches its first prompt.
StartREPL ==
    /\ pc = "sessions"
    /\ handler' = ConsoleCallbacks
    /\ pc' = "prompt"
    /\ UNCHANGED <<messages, tools, local, model, chatVars, pre, op, sessionVars,
                   launches, cmdErr>>

\* The user starts the program again after it has exited.
Relaunch ==
    /\ pc = "exited"
    /\ launches < MaxLaunches
    /\ launches' = launches + 1
    /\ pc' = "new"
    /\ messages' = <<>>
    /\ tools' = <<>>
    /\ local' = {}
    /\ model' = "zai-org/GLM-4.7-TEE"
    /\ handler' = {}
    /\ eventLog' = <<>>
    /\ toolChoice' = ToolChoiceNil
    /\ toolCalls' = <<>>
    /\ idx' = 0
    /\ inflight' = {}
    /\ lastOut' = NoOutcome
    /\ result' = NoResult
    /\ pre' = <<>>
    /\ op' = "new"
    /\ nCompl' = 0
    /\ nInvoke' = 0
    /\ nReturned' = 0
    /\ name' = ""
    /\ data' = NoData
    /\ cmdErr' = ""
    /\ arg' = ""
    /\ lastCompact' = NoCompact
    /\ listed' = <<>>
    /\ twin' = NoTwin
    /\ ui' = NewConsoleUI
    /\ UNCHANGED <<fs, now>>

(***************************************************************************)
(* Orchestrator.Chat, one action per step between its blocking calls.      *)
(***************************************************************************)
\* Entry up to the first completion call.  `cap` bounds the conversation.
ChatBegin(userMsg, cap) ==
    /\ pc = "prompt"
    /\ Len(messages) + 2 <= cap
    /\ pre' = messages
    /\ op' = "chat"
    /\ messages' = Append(messages, Msg("user", wrapUserTask(userMsg)))
    /\ eventLog' = Emit(<<>>, StatusEvent)
    /\ toolChoice' = selectToolChoice(userMsg)
    /\ toolCalls' = <<>>
    /\ idx' = 0
    /\ inflight' = {}
    /\ lastOut' = NoOutcome
    /\ result' = NoResult
    /\ nCompl' = 0
    /\ nInvoke' = 0
    /\ nReturned' = 0
    /\ pc' = "llm"
    /\ UNCHANGED <<tools, local, model, handler, sessionVars, launches, cmdErr>>

\* A Chat that keeps only the system message and the newest answer.
LLMRespondDroppingHistory(content, calls, cap) ==
    /\ pc = "llm"
    /\ calls # <<>> => Len(messages) + Len(calls) + 2 <= cap
    /\ LET text == stripThinkTags(content)
       IN  /\ messages' = <<messages[1], AssistantMsg(text, calls)>>
           /\ IF Len(calls) > 0
              THEN /\ pc' = "tools"
                   /\ idx' = 1
                   /\ result' = result
              ELSE /\ pc' = "returned"
                   /\ idx' = 0
                   /\ result' = ChatOk(text)
    /\ toolCalls' = calls
    /\ nCompl' = nCompl + 1
    /\ nReturned' = nReturned + Len(calls)
    /\ UNCHANGED <<tools, local, model, handler, eventLog, toolChoice, inflight,
                   lastOut, nInvoke, pre, op, sessionVars, launches, cmdErr>>

\* The completion call returns `content` and `calls`.
LLMRespond(content, calls, cap) ==
    /\ pc = "llm"
    /\ calls # <<>> => Len(messages) + Len(calls) + 2 <= cap
    /\ LET text == stripThinkTags(content)
       IN  /\ messages' = Append(messages, AssistantMsg(text, calls))
           /\ IF Len(calls) > 0
              THEN /\ pc' = "tools"
                   /\ idx' = 1
                   /\ result' = result
              ELSE /\ pc' = "returned"
                   /\ idx' = 0
                   /\ result' = ChatOk(text)
    /\ toolCalls' = calls
    /\ nCompl' = nCompl + 1
    /\ nReturned' = nReturned + Len(calls)
    /\ UNCHANGED <<tools, local, model, handler, eventLog, toolChoice, inflight,
                   lastOut, nInvoke, pre, op, sessionVars, launches, cmdErr>>

\* Faulty variant: a failed completion call rolls the conversation back.
LLMFailRollsBack ==
    /\ pc = "llm"
    /\ pc' = "returned"
    /\ result' = ChatError("llm")
    /\ nCompl' = nCompl + 1
    /\ messages' = pre
    /\ UNCHANGED <<tools, local, model, handler, eventLog, toolChoice,
                   toolCalls, idx, inflight, lastOut, nInvoke, nReturned, pre, op,
                   sessionVars, launches, cmdErr>>

\* The completion call fails, times out or is cancelled.
LLMFail ==
    /\ pc = "llm"
    /\ pc' = "returned"
    /\ result' = ChatError("llm")
    /\ nCompl' = nCompl + 1
    /\ UNCHANGED <<messages, tools, local, model, handler, eventLog, toolChoice,
                   toolCalls, idx, inflight, lastOut, nInvoke, nReturned, pre, op,
                   sessionVars, launches, cmdErr>>

\* A tool loop in which a missing OnToolStart callback ends the turn.
ToolStartRequiringCallback ==
    /\ pc = "tools"
    /\ idx <= Len(toolCalls)
    /\ LET call == toolCalls[idx]
       IN  /\ eventLog' = Emit(eventLog, ToolStartEvent(call.name))
           /\ IF ParseArgsFails(call.arguments) \/ ~("OnToolStart" \in handler)
              THEN /\ result' = ChatError("args")
                   /\ pc' = "returned"
                   /\ UNCHANGED <<inflight, nInvoke, idx>>
              ELSE /\ inflight' = inflight \cup {idx}
                   /\ nInvoke' = nInvoke + 1
                   /\ result' = result
                   /\ pc' = "invoking"
                   /\ idx' = idx
    /\ UNCHANGED <<messages, tools, local, model, handler, toolChoice, toolCalls,
                   lastOut, nCompl, nReturned, pre, op, sessionVars, launches, cmdErr>>

\* The loop body up to the tool invocation: the start event, the arguments
\* check, and the call of the handler or of the remote transport.
ToolStart ==
    /\ pc = "tools"
    /\ idx <= Len(toolCalls)
    /\ LET call == toolCalls[idx]
       IN  /\ eventLog' = Emit(eventLog, ToolStartEvent(call.name))
           /\ IF ParseArgsFails(call.arguments)
              THEN /\ result' = ChatError("args")
                   /\ pc' = "returned"
                   /\ UNCHANGED <<inflight, nInvoke, idx>>
              ELSE /\ inflight' = inflight \cup {idx}
                   /\ nInvoke' = nInvoke + 1
                   /\ result' = result
                   /\ IF BlocksOnCall
                      THEN pc' = "invoking" /\ idx' = idx
                      ELSE pc' = "tools" /\ idx' = idx + 1
    /\ UNCHANGED <<messages, tools, local, model, handler, toolChoice, toolCalls,
                   lastOut, nCompl, nReturned, pre, op, sessionVars, launches, cmdErr>>

\* A tool loop that gives up after two completion calls.
ToolReturnBounded(remoteOuts, localOuts) ==
    /\ pc = "invoking"
    /\ idx \in inflight
    /\ \E out \in (IF localToolHandlerNil(toolCalls[idx].name)
                    THEN remoteOuts ELSE localOuts) :
       LET call == toolCalls[idx]
           r == executeToolCall(call, out)
       IN  /\ inflight' = inflight \ {idx}
           /\ lastOut' = out
           /\ IF r.err # ""
              THEN /\ result' = ChatError("tool " \o out.kind)
                   /\ pc' = "returned"
                   /\ UNCHANGED <<messages, eventLog, idx, toolChoice>>
              ELSE /\ messages' = Append(messages, ToolMsg(r.result, call.id))
                   /\ result' = result
                   /\ IF idx = Len(toolCalls)
                      THEN /\ eventLog' = Emit(Emit(eventLog, ToolEndEvent(call.name, r.isError)),
                                               StatusEvent)
                           /\ pc' = IF nCompl >= 2 THEN "returned" ELSE "llm"
                           /\ toolChoice' = ToolChoiceAuto
                           /\ idx' = idx
                      ELSE /\ eventLog' = Emit(eventLog, ToolEndEvent(call.name, r.isError))
                           /\ pc' = "tools"
                           /\ idx' = idx + 1
                           /\ toolChoice' = toolChoice
    /\ UNCHANGED <<tools, local, model, handler, toolCalls, nCompl, nInvoke,
                   nReturned, pre, op, sessionVars, launches, cmdErr>>

\* The invocation returns `out`; the rest of the loop body, and after the
\* last call of the batch the status event before the next completion call.
ToolReturn(remoteOuts, localOuts) ==
    /\ pc = "invoking"
    /\ idx \in inflight
    /\ \E out \in (IF localToolHandlerNil(toolCalls[idx].name)
                    THEN remoteOuts ELSE localOuts) :
       LET call == toolCalls[idx]
           r == executeToolCall(call, out)
       IN  /\ inflight' = inflight \ {idx}
           /\ lastOut' = out
           /\ IF r.err # ""
              THEN /\ result' = ChatError("tool " \o out.kind)
                   /\ pc' = "returned"
                   /\ UNCHANGED <<messages, eventLog, idx, toolChoice>>
              ELSE /\ messages' = Append(messages, ToolMsg(r.result, call.id))
                   /\ result' = result
                   /\ IF idx = Len(toolCalls)
                      THEN /\ eventLog' = Emit(Emit(eventLog, ToolEndEvent(call.name, r.isError)),
                                               StatusEvent)
                           /\ pc' = "llm"
                           /\ toolChoice' = ToolChoiceAuto
                           /\ idx' = idx
                      ELSE /\ eventLog' = Emit(eventLog, ToolEndEvent(call.name, r.isError))
                           /\ pc' = "tools"
                           /\ idx' = idx + 1
                           /\ toolChoice' = toolChoice
    /\ UNCHANGED <<tools, local, model, handler, toolCalls, nCompl, nInvoke,
                   nReturned, pre, op, sessionVars, launches, cmdErr>>

(***************************************************************************)
(* runREPL and the commands.                                               *)
(***************************************************************************)
\* runREPL after Chat returns: StopSpinner, maybeAutoCompact, SaveFromOrch,
\* and the loop ends when Chat returned an error.
AfterChat(fault, reply) ==
    /\ pc = "returned"
    /\ LET auto == ShouldAutoCompact(messages)
           c == IF auto
                THEN compactSession(messages, fs, data, model, fault, reply, now)
                ELSE [messages |-> messages, fs |-> fs, data |-> data, err |-> ""]
       IN  /\ messages' = c.messages
           /\ data' = SaveFromOrchData(c.data, c.messages, model, now)
           /\ fs' = SaveFromOrchFs(c.fs, c.data, c.messages, model, now)
           /\ lastCompact' = IF auto THEN CompactRun("auto", c) ELSE SkippedCompact
    /\ pc' = IF result.status = "err" THEN "exited" ELSE "prompt"
    \* resp, err and Chat's locals end with the iteration
    /\ result' = NoResult
    /\ lastOut' = NoOutcome
    /\ toolCalls' = <<>>
    /\ idx' = 0
    /\ toolChoice' = ToolChoiceNil
    /\ eventLog' = <<>>
    /\ nCompl' = 0
    /\ nInvoke' = 0
    /\ nReturned' = 0
    /\ UNCHANGED <<tools, local, model, handler, inflight, pre, op, name, launches,
                   cmdErr, now, arg, listed, twin, ui>>

\* Faulty variant: nothing is removed.
ResetNothing(msgs) == msgs

\* Orchestrator.Reset.
Reset(msgs) == IF Len(msgs) > 0 THEN SubSeq(msgs, 1, 1) ELSE msgs

\* A /reset that is handled whenever it is typed, also during a turn.
ResetCommandAnytime ==
    /\ pc \in {"prompt", "llm"}
    /\ pre' = messages
    /\ op' = "reset"
    /\ messages' = Reset(messages)
    /\ data' = SaveFromOrchData(data, messages', model, now)
    /\ fs' = SaveFromOrchFs(fs, data, messages', model, now)
    /\ UNCHANGED <<pc, tools, local, model, handler, chatVars, name, launches, cmdErr,
                   now, arg, lastCompact, listed, twin, ui>>

\* The /reset command.
ResetCommand ==
    /\ pc = "prompt"
    /\ pre' = messages
    /\ op' = "reset"
    /\ messages' = Reset(messages)
    /\ data' = SaveFromOrchData(data, messages', model, now)
    /\ fs' = SaveFromOrchFs(fs, data, messages', model, now)
    /\ UNCHANGED <<pc, tools, local, model, handler, chatVars, name, launches, cmdErr,
                   now, arg, lastCompact, listed, twin, ui>>

\* The models /model offers.
availableModels ==
    <<"deepseek-ai/DeepSeek-V3.2-Speciale-TEE", "MiniMaxAI/MiniMax-M2.1-TEE",
      "Qwen/Qwen3-Coder-480B-A35B-Instruct-FP8-TEE", "moonshotai/Kimi-K2-Thinking-TEE",
      "moonshotai/Kimi-K2-Instruct-0905", "deepseek-ai/DeepSeek-V3.2-TEE",
      "zai-org/GLM-4.7-TEE">>

\* handleModelCommand with a number: /model <index>.
ModelCommand(index) ==
    /\ pc = "prompt"
    /\ pre' = messages
    /\ op' = "model"
    /\ IF index < 1 \/ index > Len(availableModels)
       THEN /\ cmdErr' = "model index out of range"
            /\ UNCHANGED <<model, data, fs>>
       ELSE /\ cmdErr' = ""
            /\ model' = availableModels[index]
            /\ data' = SaveFromOrchData(data, messages, model', now)
            /\ fs' = SaveFromOrchFs(fs, data, messages, model', now)
    /\ UNCHANGED <<pc, messages, tools, local, handler, chatVars, name, launches, now,
                   arg, lastCompact, listed, twin, ui>>

\* Orchestrator.AddContext.
AddContext(msgs, label, content) ==
    IF TrimSpace(content) = "" THEN msgs
    ELSE Append(msgs, Msg("system", "<context source=\"" \o label \o "\">\n"
                                    \o TrimSpace(content) \o "\n</context>"))

ContextCount(msgs) ==
    Cardinality({i \in 2..Len(msgs) : msgs[i].role = "system"})

\* The @context line: handleContextImport on a readable file.
ContextImport(path, content, cap) ==
    /\ pc = "prompt"
    /\ Len(messages) + 1 <= cap
    /\ ContextCount(messages) < MaxContext
    /\ pre' = messages
    /\ op' = "context"
    /\ messages' = AddContext(messages, path, content)
    /\ data' = SaveFromOrchData(data, messages', model, now)
    /\ fs' = SaveFromOrchFs(fs, data, messages', model, now)
    /\ UNCHANGED <<pc, tools, local, model, handler, chatVars, name, launches, cmdErr,
                   now, arg, lastCompact, listed, twin, ui>>

ArchiveEntries(fsys, dat) ==
    IF Exists(fsys, ArchivePath(dat)) THEN Len(fsys[ArchivePath(dat)]) ELSE 0

\* The /compact command.
CompactCommand(fault, reply, cap) ==
    /\ pc = "prompt"
    /\ ArchiveEntries(fs, data) < cap
    /\ pre' = messages
    /\ op' = "compact"
    /\ LET c == compactSession(messages, fs, data, model, fault, reply, now)
       IN  /\ messages' = c.messages
           /\ fs' = c.fs
           /\ data' = c.data
           /\ cmdErr' = c.err
           /\ lastCompact' = CompactRun("command", c)
    /\ UNCHANGED <<pc, tools, local, model, handler, chatVars, name, launches, now, arg,
                   listed, twin, ui>>

\* A switch that loads the record but keeps the conversation it had.
SessionSwitchKeepingConversation(raw) ==
    /\ pc = "prompt"
    /\ pre' = messages
    /\ op' = "switch"
    /\ arg' = raw
    /\ LET sessionName == sanitizeSessionName(raw)
           r == IF sessionName = name
                THEN [name |-> name, data |-> data, fs |-> fs, model |-> model,
                      messages |-> messages]
                ELSE loadOrCreate(sessionName, fs, messages, model, now)
       IN  /\ name' = r.name
           /\ model' = r.model
           /\ messages' = messages
           /\ data' = SaveFromOrchData(r.data, messages, r.model, now)
           /\ fs' = SaveFromOrchFs(r.fs, r.data, messages, r.model, now)
           /\ cmdErr' = ""
    /\ UNCHANGED <<pc, tools, local, handler, chatVars, launches, now,
                   lastCompact, listed, twin, ui>>

\* SessionState.Switch followed by SaveFromOrch: /session new and
\* /session switch.
SessionSwitch(raw) ==
    /\ pc = "prompt"
    /\ pre' = messages
    /\ op' = "switch"
    /\ arg' = raw
    /\ LET sessionName == sanitizeSessionName(raw)
           r == IF sessionName = name
                THEN [name |-> name, data |-> data, fs |-> fs, model |-> model,
                      messages |-> messages, err |-> ""]
                ELSE loadOrCreate(sessionName, fs, messages, model, now)
       IN  IF r.err # ""
           THEN /\ cmdErr' = r.err
                /\ UNCHANGED <<name, model, messages, data, fs>>
           ELSE /\ name' = r.name
                /\ model' = r.model
                /\ messages' = r.messages
                /\ data' = SaveFromOrchData(r.data, r.messages, r.model, now)
                /\ fs' = SaveFromOrchFs(r.fs, r.data, r.messages, r.model, now)
                /\ cmdErr' = ""
    /\ UNCHANGED <<pc, tools, local, handler, chatVars, launches, now,
                   lastCompact, listed, twin, ui>>

\* A Delete that goes to the store without comparing with the active name.
SessionDeleteUnchecked(raw) ==
    /\ pc = "prompt"
    /\ op' = "delete"
    /\ arg' = raw
    /\ pre' = messages
    /\ LET sessionName == sanitizeSessionName(raw)
       IN  IF ~Exists(fs, Path(sessionName))
           THEN /\ fs' = fs
                /\ cmdErr' = "remove " \o Path(sessionName)
                              \o ": no such file or directory"
           ELSE /\ fs' = RemoveFile(fs, Path(sessionName))
                /\ cmdErr' = ""
    /\ UNCHANGED <<pc, messages, tools, local, model, handler, chatVars, name, data,
                   launches, now, lastCompact, listed, twin, ui>>

\* A Delete that also removes the session's archive and summary files.
SessionDeleteWithFiles(raw) ==
    /\ pc = "prompt"
    /\ op' = "delete"
    /\ arg' = raw
    /\ pre' = messages
    /\ LET sessionName == sanitizeSessionName(raw)
       IN  IF sessionName = name \/ ~Exists(fs, Path(sessionName))
           THEN /\ fs' = fs
                /\ cmdErr' = IF sessionName = name THEN "cannot delete active session"
                              ELSE "remove " \o Path(sessionName)
                                   \o ": no such file or directory"
           ELSE /\ fs' = RemoveFile(RemoveFile(RemoveFile(fs, Path(sessionName)),
                                               sessionName \o "_archive.txt"),
                                    sessionName \o "_summary.md")
                /\ cmdErr' = ""
    /\ UNCHANGED <<pc, messages, tools, local, model, handler, chatVars, name, data,
                   launches, now, lastCompact, listed, twin, ui>>

\* SessionState.Delete: /session delete.
SessionDelete(raw) ==
    /\ pc = "prompt"
    /\ op' = "delete"
    /\ arg' = raw
    /\ pre' = messages
    /\ LET sessionName == sanitizeSessionName(raw)
       IN  IF sessionName = name \/ ~Exists(fs, Path(sessionName))
           THEN /\ fs' = fs
                /\ cmdErr' = IF sessionName = name THEN "cannot delete active session"
                              ELSE "remove " \o Path(sessionName)
                                   \o ": no such file or directory"
           ELSE /\ fs' = RemoveFile(fs, Path(sessionName))
                /\ cmdErr' = ""
    /\ UNCHANGED <<pc, messages, tools, local, model, handler, chatVars, name, data,
                   launches, now, lastCompact, listed, twin, ui>>

\* /exit, exit, quit or end of input.
ExitCommand ==
    /\ pc = "prompt"
    /\ pc' = "exited"
    /\ UNCHANGED <<messages, tools, local, model, handler, chatVars, pre, op,
                   sessionVars, launches, cmdErr>>

\* Time passes: the next time.Now() is later.
Tick(cap) ==
    /\ now < cap
    /\ now' = now + 1
    /\ UNCHANGED <<pc, messages, tools, local, model, handler, chatVars, pre, op, fs,
                   name, data, launches, cmdErr, arg, lastCompact, listed, twin, ui>>

(***************************************************************************)
(* Inputs and specifications.                                              *)
(***************************************************************************)
McpToolLists == {<<"list_dir">>}
InstructionTexts == {"Use the tools."}
UserTexts == {"List files"}

Call(i, fname, arguments) == ToolCall("c" \o ToString(i), fname, arguments)
Response(content, calls) == [content |-> content, calls |-> calls]

\* What the completion endpoint may answer: text only, or a batch of calls of
\* the remote tool list_dir and the local tool session_search, with empty,
\* well-formed and malformed arguments.
Responses ==
    {Response("ok", <<>>),
     Response("<think>plan</think> done ", <<>>),
     Response("<think>t</think>", <<Call(1, "list_dir", "{}")>>),
     Response("", <<Call(1, "session_search", "")>>),
     Response("", <<Call(1, "list_dir", "{bad"), Call(2, "session_search", "")>>),
     Response("", <<Call(1, "list_dir", "{\"relative_path\":\".\"}"),
                    Call(2, "session_search", "{\"query\":\"x\"}")>>),
     Response("", <<Call(1, "session_search", ""), Call(2, "list_dir", "[1]")>>)}

TextBlock(t) == [type |-> "text", text |-> t, mime |-> ""]
ImageBlock(m) == [type |-> "image", text |-> "", mime |-> m]

RemoteOutcomes ==
    {Outcome("result", "", <<TextBlock("a.go"), ImageBlock("image/png")>>, FALSE),
     Outcome("result", "", <<TextBlock("no such dir")>>, TRUE),
     Outcome("transport", "", <<>>, FALSE),
     Outcome("timeout", "", <<>>, FALSE)}

LocalOutcomes ==
    {Outcome("ok", "No archive content yet.", <<>>, FALSE),
     Outcome("err", "read archive: permission denied", <<>>, FALSE)}

Faults == {"none", "summarize", "archive", "summary"}

\* The turn in full detail: start-up, Chat step by step, /reset, restart.
Next ==
    \/ \E t \in McpToolLists, i \in InstructionTexts : Initialize(t, i)
    \/ InitializeFails
    \/ InitSessionState
    \/ StartREPL
    \/ \E u \in UserTexts : ChatBegin(u, MaxMsgs)
    \/ \E r \in Responses : LLMRespond(r.content, r.calls, MaxMsgs)
    \/ LLMFail
    \/ ToolStart
    \/ ToolReturn(RemoteOutcomes, LocalOutcomes)
    \/ \E f \in Faults : AfterChat(f, "summary")
    \/ ResetCommand
    \/ ExitCommand
    \/ Relaunch

Spec == Init /\ [][Next]_vars

(***************************************************************************)
(* The interactive program with every command, on a small set of inputs.   *)
(***************************************************************************)
\* The reply of the summarization call in the interactive specifications.
SummaryReply == "<think>x</think>summary "

ReplResponses ==
    {Response("ok", <<>>),
     Response("", <<Call(1, "list_dir", "{}")>>)}

ReplRemoteOutcomes ==
    {Outcome("result", "", <<TextBlock("a.go")>>, FALSE),
     Outcome("transport", "", <<>>, FALSE)}

ReplLocalOutcomes == {Outcome("ok", "No archive content yet.", <<>>, FALSE)}

NextRepl ==
    \/ \E t \in McpToolLists, i \in InstructionTexts : Initialize(t, i)
    \/ InitializeFails
    \/ InitSessionState
    \/ StartREPL
    \/ ChatBegin("hi", MaxReplMsgs)
    \/ \E r \in ReplResponses : LLMRespond(r.content, r.calls, MaxReplMsgs)
    \/ LLMFail
    \/ ToolStart
    \/ ToolReturn(ReplRemoteOutcomes, ReplLocalOutcomes)
    \/ \E f \in Faults : AfterChat(f, "summary")
    \/ ResetCommand
    \/ ContextImport("notes.md", " keep it short\n", MaxReplMsgs)
    \/ \E f \in Faults : CompactCommand(f, SummaryReply, MaxArchive)
    \/ ExitCommand

\* The session directory an earlier process left after one turn on the
\* default session.
EarlierDisk ==
    LET first == <<Msg("system", "Use the tools.")>>
        r == loadOrCreate(defaultSessionName, <<>>, first, "zai-org/GLM-4.7-TEE", 1)
        turn == first \o <<Msg("user", wrapUserTask("earlier")), AssistantMsg("ok", <<>>)>>
    IN  SaveFromOrchFs(r.fs, r.data, turn, r.model, 1)

InitRepl ==
    /\ Constructed
    /\ fs \in {<<>>, EarlierDisk}
    /\ now = 1
    /\ arg = ""
    /\ launches = 1

SpecRepl == InitRepl /\ [][NextRepl]_vars

(***************************************************************************)
(* Several named sessions with short conversations.                        *)
(***************************************************************************)
RawSessionNames == {"w", "W!", "default"}

\* The instructions the MCP server returns at a launch: the server may
\* return none, and the fallback prompt is used.
SessionInstructionTexts == {"Use the tools.", ""}

NextSessions ==
    \/ \E t \in McpToolLists, i \in SessionInstructionTexts : Initialize(t, i)
    \/ InitializeFails
    \/ InitSessionState
    \/ StartREPL
    \/ ChatBegin("hi", MaxSessionMsgs)
    \/ LLMRespond("ok", <<>>, MaxSessionMsgs)
    \/ LLMFail
    \/ AfterChat("none", "summary")
    \/ ResetCommand
    \/ ContextImport("notes.md", "short", MaxSessionMsgs)
    \/ \E n \in RawSessionNames : SessionSwitch(n)
    \/ \E n \in RawSessionNames : SessionDelete(n)
    \/ ExitCommand
    \/ Relaunch

SpecSessions == Init /\ [][NextSessions]_vars

(***************************************************************************)
(* One session compacted several times while the clock advances.           *)
(***************************************************************************)
MaxArchiveMsgs == 9
MaxCompactions == 2
MaxClock == 3

\* What the summarization call may return.
SummaryReplies == {SummaryReply, "shorter"}

NextArchive ==
    \/ \E t \in McpToolLists, i \in InstructionTexts : Initialize(t, i)
    \/ InitSessionState
    \/ StartREPL
    \/ ChatBegin("hi", MaxArchiveMsgs)
    \/ LLMRespond("ok", <<>>, MaxArchiveMsgs)
    \/ AfterChat("none", SummaryReply)
    \/ ResetCommand
    \/ \E f \in Faults, r \in SummaryReplies : CompactCommand(f, r, MaxCompactions)
    \/ Tick(MaxClock)
    \/ ExitCommand

SpecArchive == Init /\ [][NextArchive]_vars

(***************************************************************************)
(* A session whose conversation is close to the context budget.            *)
(***************************************************************************)
MaxBigMsgs == 9

\* The text made of n letters.
RECURSIVE Rep(_)
Rep(n) ==
    IF n = 0 THEN ""
    ELSE IF n % 2 = 1 THEN "a" \o Rep(n - 1)
    ELSE LET half == Rep(n \div 2) IN half \o half

\* An assistant message sized so that the next turn, "hi" answered by "ok",
\* brings the conversation to 719,999 characters.
BigText ==
    Rep(719999 - Len("Use the tools.") - Len(wrapUserTask("earlier"))
        - Len(wrapUserTask("hi")) - Len("ok"))

\* The session directory an earlier process left after one turn with a very
\* long answer.
BigDisk ==
    LET first == <<Msg("system", "Use the tools.")>>
        r == loadOrCreate(defaultSessionName, <<>>, first, "zai-org/GLM-4.7-TEE", 1)
        turn == first \o <<Msg("user", wrapUserTask("earlier")), AssistantMsg(BigText, <<>>)>>
    IN  SaveFromOrchFs(r.fs, r.data, turn, r.model, 1)

InitBig ==
    /\ Constructed
    /\ fs = BigDisk
    /\ now = 1
    /\ arg = ""
    /\ launches = 1

NextBig ==
    \/ \E t \in McpToolLists, i \in InstructionTexts : Initialize(t, i)
    \/ InitSessionState
    \/ StartREPL
    \/ ChatBegin("hi", MaxBigMsgs)
    \/ \E c \in {"ok", "ok!"} : LLMRespond(c, <<>>, MaxBigMsgs)
    \/ LLMFail
    \/ \E f \in Faults : AfterChat(f, SummaryReply)
    \/ ResetCommand
    \/ ExitCommand

SpecBig == InitBig /\ [][NextBig]_vars

(***************************************************************************)
(* The session store used on its own: a caller that builds records, saves  *)
(* them, loads them under any spelling of a name and changes them.         *)
(***************************************************************************)
MaxStoreMsgs == 1

\* Everything the store does not touch.
notStoreVars == <<pc, messages, tools, local, model, handler, chatVars, pre, name,
                  launches, lastCompact, listed, twin, ui>>

StoreNames == {"My Project!", "MY PROJECT!", "notes"}

\* The caller builds a record that has never been saved (as loadOrCreate
\* does for a missing session).
NewRecord(raw) ==
    /\ pc = "new"
    /\ op' = "record"
    /\ arg' = raw
    /\ data' = [name |-> raw, model |-> model, system_prompt |-> "",
                messages |-> <<>>, archive_file |-> "", summary_file |-> "",
                created_at |-> 0, updated_at |-> 0, nil |-> FALSE]
    /\ cmdErr' = ""
    /\ UNCHANGED <<notStoreVars, fs, now>>

\* The caller changes the record it holds.
MutateRecord ==
    /\ pc = "new"
    /\ ~data.nil
    /\ Len(data.messages) < MaxStoreMsgs
    /\ op' = "mutate"
    /\ data' = [data EXCEPT !.messages = Append(@, StoredMsg(Msg("user", "hi")))]
    /\ cmdErr' = ""
    /\ UNCHANGED <<notStoreVars, fs, now, arg>>

\* Store.Save on the record the caller holds.
SaveCall ==
    /\ pc = "new"
    /\ ~data.nil
    /\ op' = "save"
    /\ arg' = data.name
    /\ IF data.name = ""
       THEN /\ cmdErr' = "session name is required"
            /\ UNCHANGED <<fs, data>>
       ELSE /\ cmdErr' = ""
            /\ data' = Stamp(data, now)
            /\ fs' = StoreSave(fs, data, now)
    /\ UNCHANGED <<notStoreVars, now>>

\* Store.Load: the caller holds the record read, or nothing when the file
\* is missing.
LoadCall(raw) ==
    /\ pc = "new"
    /\ op' = "read"
    /\ arg' = raw
    /\ IF Exists(fs, Path(raw))
       THEN /\ data' = fs[Path(raw)]
            /\ cmdErr' = ""
       ELSE /\ data' = NoData
            /\ cmdErr' = "open " \o Path(raw) \o ": no such file or directory"
    /\ UNCHANGED <<notStoreVars, fs, now>>

NextStore ==
    \/ \E n \in StoreNames \cup {""} : NewRecord(n)
    \/ MutateRecord
    \/ SaveCall
    \/ \E n \in StoreNames : LoadCall(n)
    \/ Tick(MaxClock)

SpecStore == Init /\ [][NextStore]_vars

(***************************************************************************)
(* The sanitizers on every short name: Store.Load and SessionState.Delete  *)
(* called with each of them.                                               *)
(***************************************************************************)
MaxNameLen == 3

NameAlphabet == {"a", "Z", "7", " ", "\t", "!", "-", "_", "."}

\* Every text of at most n characters of the alphabet.
RECURSIVE NamesUpTo(_)
NamesUpTo(n) ==
    IF n = 0 THEN {""}
    ELSE LET shorter == NamesUpTo(n - 1)
         IN  shorter \cup {s \o c : s \in shorter, c \in NameAlphabet}

NameInputs == NamesUpTo(MaxNameLen) \cup {"My Project!", " Dev Box 2 "}

\* The name the calls are going to be given is drawn at the start.
InitNames ==
    /\ Constructed
    /\ fs = <<>>
    /\ now = 1
    /\ launches = 1
    /\ arg \in NameInputs

NextNames ==
    \/ LoadCall(arg)
    \/ \E t \in McpToolLists, i \in InstructionTexts : Initialize(t, i)
    \/ InitSessionState
    \/ StartREPL
    \/ SessionDelete(arg)

SpecNames == InitNames /\ [][NextNames]_vars

(***************************************************************************)
(* Properties of a turn.                                                   *)
(***************************************************************************)
\* A turn is in progress or has just returned: the messages after `pre` are
\* the ones this Chat call appended.
InTurn == op = "chat" /\ pc \in {"llm", "tools", "invoking", "returned"}

\* C1: every assistant message of the turn that carries tool calls c1..cn is
\* followed directly by tool messages only, the k-th carrying the id of ck,
\* never more than n of them, and all n are there whenever the next
\* completion call is made.
ToolMessagesAnswerCalls ==
    InTurn =>
        \A i \in (Len(pre) + 1)..Len(messages) :
            LET m == messages[i]
                n == Len(m.tool_calls)
            IN  (m.role = "assistant" /\ n > 0) =>
                    /\ \A k \in 1..n :
                          i + k <= Len(messages) =>
                              /\ messages[i + k].role = "tool"
                              /\ messages[i + k].tool_call_id = m.tool_calls[k].id
                    /\ i + n < Len(messages) => messages[i + n + 1].role # "tool"
                    /\ pc = "llm" => i + n <= Len(messages)

\* A batch of two calls has been answered and the next completion call is
\* being made.
BatchOfTwoAnswered ==
    /\ InTurn
    /\ pc = "llm"
    /\ Len(toolCalls) = 2
    /\ Len(messages) >= Len(pre) + 4
    /\ messages[Len(messages) - 2].tool_calls = toolCalls
    /\ messages[Len(messages) - 1].tool_call_id = toolCalls[1].id
    /\ messages[Len(messages)].tool_call_id = toolCalls[2].id

\* C2: Chat returns successfully exactly when the last completion response
\* carried no tool calls; the text returned is that response's text without
\* reasoning segments, the conversation ends with that assistant message, and
\* as many tools were invoked as the earlier responses returned calls.
ReturnsOnResponseWithoutCalls ==
    InTurn =>
        LET last == messages[Len(messages)]
            answered == /\ Len(messages) > Len(pre) + 1
                        /\ last.role = "assistant"
                        /\ last.tool_calls = <<>>
        IN  /\ answered => pc = "returned"
            /\ pc = "returned" =>
                  /\ result.status \in {"ok", "err"}
                  /\ result.status = "ok" <=> answered
            /\ (pc = "returned" /\ result.status = "ok") =>
                  /\ result.text = last.content
                  /\ ~Contains(result.text, "<think>")
                  /\ TrimSpace(result.text) = result.text
                  /\ toolCalls = <<>>
                  /\ inflight = {}
                  /\ nInvoke = nReturned
                  /\ Len(messages) = Len(pre) + 1 + nCompl + nReturned
                  /\ nReturned = 1 => (nInvoke = 1 /\ nCompl = 2)

\* One tool call, then a response with reasoning and no calls.
ReturnedAfterOneInvocation ==
    /\ InTurn
    /\ pc = "returned"
    /\ result = ChatOk("done")
    /\ nReturned = 1
    /\ nInvoke = 1
    /\ nCompl = 2

(***************************************************************************)
(* Properties of the conversation.                                         *)
(***************************************************************************)
\* Initialize has succeeded in this process.
Initialized == pc # "new" /\ ~(pc = "exited" /\ op = "initialize")

ResetKeepsOnlyFirst ==
    (op = "reset" /\ Len(pre) > 0) => messages = <<pre[1]>>

\* The conversation that was reset held an injected context message and a
\* compaction summary.
ResetAfterContextAndSummary ==
    /\ op = "reset"
    /\ ContextCount(pre) >= 1
    /\ \E i \in 2..Len(pre) : HasPrefix(pre[i].content, "<summary>")
    /\ Len(messages) = 1

(***************************************************************************)
(* Properties of tool failures.                                            *)
(***************************************************************************)
\* The step in which the tool invocation in progress returns.
InvocationReturns == pc = "invoking" /\ pc' # "invoking"

\* The tool message Chat appends for the call being handled.
AppendedToolMessage(content) ==
    messages' = Append(messages, ToolMsg(content, toolCalls[idx].id))

\* C5 as claimed: an invocation that exceeds its timeout gives a tool message
\* for that call with an error notice naming the tool, and the loop goes on.
TimeoutIsToolLevelError ==
    [][(InvocationReturns /\ lastOut'.kind = "timeout") =>
          /\ \E m \in {messages'[Len(messages')]} :
                /\ Len(messages') = Len(messages) + 1
                /\ m.role = "tool"
                /\ m.tool_call_id = toolCalls[idx].id
                /\ HasPrefix(m.content, "Error")
                /\ Contains(m.content, toolCalls[idx].name)
          /\ result'.status # "err"
          /\ pc' \in {"tools", "llm"}]_vars

\* A tool that ran and reported failure: a local handler's error, or a
\* remote result flagged IsError.
ReportedFailure(out) ==
    out.kind = "err" \/ (out.kind = "result" /\ out.isError)

\* C6: a reported tool failure gives a tool message starting with "Error: ",
\* sets the error flag of the tool-end event, returns no error from Chat and
\* lets the loop go on to the next call of the batch or the next completion
\* call.
ReportedFailureContinues ==
    [][(InvocationReturns /\ ReportedFailure(lastOut')) =>
          /\ \E c \in {messages'[Len(messages')].content} :
                /\ AppendedToolMessage(c)
                /\ HasPrefix(c, "Error: ")
          /\ \E e \in 1..Len(eventLog') :
                /\ e > Len(eventLog)
                /\ eventLog'[e] = ToolEndEvent(toolCalls[idx].name, TRUE)
          /\ result' = NoResult
          /\ IF idx < Len(toolCalls)
             THEN pc' = "tools" /\ idx' = idx + 1
             ELSE pc' = "llm"]_vars

\* The first call of a batch reported failure and the second is up next.
FailureThenNextCall ==
    /\ InTurn
    /\ pc = "tools"
    /\ idx = 2
    /\ ReportedFailure(lastOut)
    /\ HasPrefix(messages[Len(messages)].content, "Error: ")

\* C7: a call whose arguments are non-empty and not valid JSON aborts the
\* turn: no invocation, no tool message, and after the abort neither another
\* invocation nor another completion call; empty arguments are not a parse
\* failure and the tool is invoked.
MalformedArgumentsAbort ==
    /\ [][(pc = "tools" /\ pc' # "tools" /\ idx <= Len(toolCalls)) =>
             LET raw == toolCalls[idx].arguments
             IN  /\ (raw # "" /\ ~IsValidJSON(raw)) =>
                       /\ pc' = "returned"
                       /\ result'.status = "err"
                       /\ nInvoke' = nInvoke
                       /\ inflight' = {}
                       /\ messages' = messages
                 /\ raw = "" =>
                       /\ pc' = "invoking"
                       /\ nInvoke' = nInvoke + 1
                       /\ inflight' = {idx}
                       /\ result' = NoResult]_vars
    /\ [][pc = "returned" =>
             /\ pc' \in {"prompt", "exited"}
             /\ inflight' = {}
             /\ nInvoke' = 0
             /\ nCompl' = 0]_vars

\* The first call of a batch of two had malformed arguments: nothing was
\* invoked and the conversation ends with the assistant message.
AbortedOnFirstCall ==
    /\ InTurn
    /\ pc = "returned"
    /\ result.status = "err"
    /\ idx = 1
    /\ Len(toolCalls) = 2
    /\ toolCalls[1].arguments # ""
    /\ ~IsValidJSON(toolCalls[1].arguments)
    /\ nInvoke = 0
    /\ messages[Len(messages)].tool_calls = toolCalls

\* The number of assistant messages the turn has appended.
AssistantMessagesOfTurn ==
    Cardinality({i \in (Len(pre) + 1)..Len(messages) : messages[i].role = "assistant"})

\* C8: when a completion call fails Chat returns an error and no assistant
\* message is appended for it; the user message of the turn and the tool
\* messages appended so far stay, and they are what the session file holds
\* for the next process.
FailedCompletionKeepsUserMessage ==
    /\ [][(pc = "llm" /\ result'.status = "err") =>
             (pc' = "returned" /\ messages' = messages)]_vars
    /\ [][(pc = "returned" /\ result.cause = "llm") =>
             /\ SubSeq(messages, 1, Len(pre)) = pre
             /\ messages[Len(pre) + 1].role = "user"
             /\ messages[Len(messages)].role \in {"user", "tool"}
             /\ AssistantMessagesOfTurn = nCompl - 1
             /\ messages' = messages
             /\ (~data.nil => fs'[Path(name)].messages = FromOpenAIMessages(messages))]_vars

\* The second completion call of a turn failed after a tool message had
\* been appended.
CompletionFailedAfterTool ==
    /\ InTurn
    /\ pc = "returned"
    /\ result.cause = "llm"
    /\ nCompl = 2
    /\ messages[Len(messages)].role = "tool"

\* Every assistant message of `msgs` that carries tool calls is followed by
\* one tool message for each of its calls.
Consistent(msgs) ==
    \A i \in 1..Len(msgs) :
        LET n == Len(msgs[i].tool_calls)
        IN  (msgs[i].role = "assistant" /\ n > 0) =>
                /\ i + n <= Len(msgs)
                /\ \A k \in 1..n :
                      /\ msgs[i + k].role = "tool"
                      /\ msgs[i + k].tool_call_id = msgs[i].tool_calls[k].id

\* C9 as claimed: after a turn has aborted on a tool transport failure or on
\* malformed arguments, the conversation in memory and the one in the
\* session file are consistent.
AbortLeavesConsistentConversation ==
    /\ (pc = "returned" /\ result.cause \in {"args", "tool transport"}) =>
           Consistent(messages)
    /\ (pc = "exited" /\ ~data.nil /\ Exists(fs, Path(name))) =>
           Consistent(fs[Path(name)].messages)

\* C10: at most one tool invocation is in progress; while one is, it is the
\* call at the loop's position and every earlier call of the batch has its
\* tool message; none is in progress when the loop picks the next call or
\* makes a completion call.
OneInvocationAtATime ==
    /\ Cardinality(inflight) <= 1
    /\ pc = "invoking" =>
          /\ inflight = {idx}
          /\ \A k \in 1..(idx - 1) :
                messages[Len(messages) - (idx - 1) + k].tool_call_id = toolCalls[k].id
          /\ messages[Len(messages) - (idx - 1)].tool_calls = toolCalls
    /\ pc \in {"tools", "llm", "returned", "prompt"} => inflight = {}
    /\ (pc = "llm" /\ nCompl >= 1) =>
          /\ nInvoke = nReturned
          /\ messages[Len(messages)].tool_call_id = toolCalls[Len(toolCalls)].id

\* The second invocation of a batch is in progress.
SecondInvocationInProgress ==
    /\ pc = "invoking"
    /\ idx = 2
    /\ inflight = {2}
    /\ messages[Len(messages)].tool_call_id = toolCalls[1].id

(***************************************************************************)
(* Compaction.                                                             *)
(***************************************************************************)
\* A step of the /compact command.
CompactStep == \E f \in Faults : CompactCommand(f, SummaryReply, MaxArchive)

\* C11: /compact on a conversation of fewer than 8 messages (the tail of 6
\* plus 2) is refused with a "not enough" error: the conversation, the
\* session directory (archive file, summary file and session record) and the
\* in-memory record are unchanged and Summarize is not called.
SmallConversationNotCompacted ==
    [][(CompactStep /\ Len(messages) < 8) =>
          /\ HasPrefix(cmdErr', "not enough")
          /\ messages' = messages
          /\ fs' = fs
          /\ data' = data
          /\ ~lastCompact'.summarized]_vars

\* /compact was refused on a conversation of 4 to 7 messages whose session
\* record is on disk.
CompactRefusedOnSevenOrFewer ==
    /\ op = "compact"
    /\ lastCompact.by = "command"
    /\ Len(pre) \in 4..7
    /\ messages = pre
    /\ HasPrefix(cmdErr, "not enough history")
    /\ Exists(fs, Path(name))

DefaultArchive(fsys) ==
    IF Exists(fsys, defaultSessionName \o "_archive.txt")
    THEN fsys[defaultSessionName \o "_archive.txt"] ELSE <<>>

DefaultSummary(fsys) ==
    IF Exists(fsys, defaultSessionName \o "_summary.md")
    THEN <<fsys[defaultSessionName \o "_summary.md"]>> ELSE <<>>

IsPrefix(a, b) == Len(a) <= Len(b) /\ SubSeq(b, 1, Len(a)) = a

\* A /compact step that returns no error, the summarization call having
\* returned `reply`.
CompactedWith(reply) ==
    /\ \E f \in Faults : CompactCommand(f, reply, MaxCompactions)
    /\ cmdErr' = ""

\* C13: over any sequence of compactions of one session the archive file
\* only grows, its previous content being a prefix of the new one; every
\* successful compaction appends exactly one entry stamped with the current
\* time after the earlier ones; the summary file holds exactly the summary
\* of the latest successful compaction and no other step touches it.
ArchiveOnlyGrows ==
    [][LET old == DefaultArchive(fs)
           new == DefaultArchive(fs')
       IN  /\ IsPrefix(old, new)
           /\ \A r \in SummaryReplies :
                 CompactedWith(r) =>
                    /\ Len(new) = Len(old) + 1
                    /\ new[Len(new)].header = "Compaction at"
                    /\ new[Len(new)].at = now
                    /\ \A i \in 1..Len(old) : old[i].at <= new[Len(new)].at
                    /\ DefaultSummary(fs') = <<stripThinkTags(r)>>
           /\ ~(\E r \in SummaryReplies : CompactedWith(r)) =>
                    DefaultSummary(fs') = DefaultSummary(fs)]_vars

\* The session has been compacted twice, at different times and with
\* different summaries; the summary file holds the second summary only.
CompactedTwice ==
    /\ Len(DefaultArchive(fs)) = 2
    /\ DefaultArchive(fs)[1].at < DefaultArchive(fs)[2].at
    /\ lastCompact = [by |-> "command", err |-> "", summarized |-> TRUE]
    /\ op = "compact"
    /\ DefaultSummary(fs) = <<"shorter">>
    /\ Contains(DefaultArchive(fs)[2].body, "<summary>\nsummary\n</summary>")

(***************************************************************************)
(* Statistics and the auto-compaction trigger.                             *)
(***************************************************************************)
\* The step runREPL takes after Chat has returned.
AfterChatStep == \E f \in Faults : AfterChat(f, SummaryReply)

\* C14: after a turn the auto-compaction path is entered exactly when the
\* approximate token count is at least 180,000, that is when the character
\* count is at least 720,000; below that the conversation and the archive
\* are left as they are.
AutoCompactionAtThreshold ==
    [][AfterChatStep =>
          /\ (lastCompact'.by = "auto") <=>
                (ConversationStats(messages).ApproxTokens >= 180000)
          /\ (lastCompact'.by = "auto") <=> (CharCount(messages) >= 720000)
          /\ CharCount(messages) < 720000 =>
                /\ lastCompact' = SkippedCompact
                /\ messages' = messages
                /\ DefaultArchive(fs') = DefaultArchive(fs)
                /\ DefaultSummary(fs') = DefaultSummary(fs)]_vars

\* A turn ended with exactly 720,000 characters: auto-compaction was entered
\* and refused the short conversation.
AutoCompactEnteredAtExactly720000 ==
    /\ pc = "prompt"
    /\ op = "chat"
    /\ lastCompact.by = "auto"
    /\ HasPrefix(lastCompact.err, "not enough")
    /\ CharCount(messages) = 720000

\* A turn ended with 719,999 characters and nothing was compacted.
AutoCompactSkippedAt719999 ==
    /\ pc = "prompt"
    /\ op = "chat"
    /\ lastCompact = SkippedCompact
    /\ CharCount(messages) = 719999
    /\ ConversationStats(messages).ApproxTokens = 179999

\* C15: ConversationStats returns the number of messages, the sum of the
\* lengths of the tool-call lists, the character count (every content length
\* plus every tool call's name and arguments length) and that count's
\* integer quotient by 4 as the approximate token count; 1000 characters
\* give 250 and 3 characters give 0.
StatsCountMessagesCallsAndCharacters ==
    LET n == Len(messages)
        st == ConversationStats(messages)
        callChars(cs) ==
            LET c[j \in 0..Len(cs)] ==
                    IF j = 0 THEN 0
                    ELSE c[j - 1] + Len(cs[j].name) + Len(cs[j].arguments)
            IN  c[Len(cs)]
        calls[i \in 0..n] ==
            IF i = 0 THEN 0 ELSE calls[i - 1] + Len(messages[i].tool_calls)
        chars[i \in 0..n] ==
            IF i = 0 THEN 0
            ELSE chars[i - 1] + Len(messages[i].content)
                 + callChars(messages[i].tool_calls)
    IN  /\ st.MessageCount = n
        /\ st.ToolCallCount = calls[n]
        /\ st.CharCount = chars[n]
        /\ 4 * st.ApproxTokens <= chars[n]
        /\ chars[n] < 4 * st.ApproxTokens + 4
        /\ ConversationStats(<<Msg("user", Rep(1000))>>).ApproxTokens = 250
        /\ ConversationStats(<<Msg("user", Rep(3))>>).ApproxTokens = 0
        /\ ConversationStats(<<>>).ApproxTokens = 0

\* maybeAutoCompact has taken the statistics of a conversation with two tool
\* calls whose character count is not a multiple of 4.
StatsTakenWithToolCalls ==
    /\ pc = "prompt"
    /\ op = "chat"
    /\ lastCompact = SkippedCompact
    /\ ConversationStats(messages).ToolCallCount = 2
    /\ ConversationStats(messages).MessageCount >= 5
    /\ ConversationStats(messages).CharCount % 4 # 0

(***************************************************************************)
(* Stored sessions.                                                        *)
(***************************************************************************)
\* The conversation rebuilt from the stored form of `msgs` under `prompt`
\* is the system message followed by the tail of `msgs`, field by field.
RoundTrips(msgs, prompt) ==
    LET stored == FromOpenAIMessages(msgs)
        back == ToOpenAIMessages(prompt, stored)
    IN  /\ Len(stored) = Len(msgs) - 1
        /\ \A i \in 1..Len(stored) :
              /\ stored[i].role = msgs[i + 1].role
              /\ stored[i].content = msgs[i + 1].content
        /\ Len(back) = Len(msgs)
        /\ back[1].role = "system"
        /\ back[1].content = prompt
        /\ \A i \in 2..Len(msgs) :
              /\ back[i].role = msgs[i].role
              /\ back[i].content = msgs[i].content
              /\ back[i].tool_call_id = msgs[i].tool_call_id
              /\ Len(back[i].tool_calls) = Len(msgs[i].tool_calls)
              /\ \A k \in 1..Len(msgs[i].tool_calls) :
                    /\ back[i].tool_calls[k].id = msgs[i].tool_calls[k].id
                    /\ back[i].tool_calls[k].name = msgs[i].tool_calls[k].name
                    /\ back[i].tool_calls[k].arguments = msgs[i].tool_calls[k].arguments

\* C16: for every conversation whose index 0 is the system message,
\* ToOpenAIMessages(prompt, FromOpenAIMessages(conversation)) is the system
\* message followed by the original tail, equal in role, content,
\* tool_call_id and each tool call's id, name and arguments, in order; the
\* stored form has no entry for index 0.  The session file of the running
\* session holds that stored form after every save.
StoredFormRoundTrips ==
    /\ (Len(messages) > 0 /\ messages[1].role = "system") =>
          /\ RoundTrips(messages, messages[1].content)
          /\ RoundTrips(messages, "another prompt")
    /\ (pc = "prompt" /\ ~data.nil) =>
          /\ data.messages = FromOpenAIMessages(messages)
          /\ Exists(fs, Path(name))
          /\ fs[Path(name)].messages = FromOpenAIMessages(messages)

\* A conversation with an assistant message carrying two tool calls and
\* their tool messages has been saved, the program restarted, and the
\* conversation rebuilt from the session file.
ReloadedConversationWithToolCalls ==
    /\ launches = 2
    /\ op = "load"
    /\ pc = "sessions"
    /\ Len(messages) >= 5
    /\ \E i \in 2..Len(messages) :
          /\ Len(messages[i].tool_calls) = 2
          /\ i + 2 <= Len(messages)
          /\ messages[i + 1].tool_call_id = messages[i].tool_calls[1].id
          /\ messages[i + 2].tool_call_id = messages[i].tool_calls[2].id
    /\ messages = ToOpenAIMessages(messages[1].content, fs[Path(name)].messages)

\* C17 as claimed: when a stored session is loaded at startup, the system
\* message at index 0 of the rebuilt conversation is the system_prompt field
\* of the loaded record.
LoadedPromptIsRecordPrompt ==
    (pc = "sessions" /\ op = "load") =>
        /\ messages[1].role = "system"
        /\ messages[1].content = data.system_prompt

\* A Store.Save that wrote the record.
SavedStep == SaveCall /\ cmdErr' = ""

\* The fields of a record other than updated_at.
SameButUpdatedAt(a, b) ==
    /\ a.name = b.name
    /\ a.created_at = b.created_at
    /\ a.model = b.model
    /\ a.system_prompt = b.system_prompt
    /\ a.messages = b.messages
    /\ a.archive_file = b.archive_file
    /\ a.summary_file = b.summary_file

\* C18: saving a record again with no mutation since it was saved or loaded
\* changes only updated_at on disk; over saves and reloads created_at keeps
\* the value the first save set, and updated_at never decreases.
SaveTwiceChangesOnlyUpdatedAt ==
    [][/\ SavedStep =>
            LET p == Path(data.name)
            IN  /\ (Exists(fs, p) /\ fs[p] = data) =>
                       /\ SameButUpdatedAt(fs'[p], fs[p])
                       /\ fs'[p].updated_at >= fs[p].updated_at
                /\ data.created_at # 0 =>
                       /\ fs'[p].created_at = data.created_at
                       /\ fs'[p].updated_at >= data.updated_at
                /\ data.created_at = 0 => fs'[p].created_at = now
                /\ fs'[p].created_at <= fs'[p].updated_at
                /\ fs'[p].updated_at = now
                /\ data' = fs'[p]
       /\ \A n \in StoreNames :
             (LoadCall(n) /\ cmdErr' = "") =>
                 /\ data'.created_at = fs[Path(n)].created_at
                 /\ data'.updated_at = fs[Path(n)].updated_at
                 /\ fs' = fs]_vars

\* A record saved at one time, reloaded, and saved again at a later time
\* with no mutation: created_at is the first save's time, updated_at the
\* second's.
SavedAgainLater ==
    /\ op = "save"
    /\ cmdErr = ""
    /\ arg = "notes"
    /\ data.created_at = 1
    /\ data.updated_at = 3
    /\ data.messages = <<>>
    /\ fs[Path("notes")] = data

\* C19: names that sanitize to the same slug share one record: Load under
\* one returns the record saved under the other and a Save under one
\* overwrites the other's ("My Project!" and "MY PROJECT!" both use
\* my-project); names with different slugs never read or overwrite each
\* other's record.
SameSlugSameRecord ==
    [][/\ sanitizeName("My Project!") = "my-project"
       /\ sanitizeName("MY PROJECT!") = "my-project"
       /\ \A f \in DOMAIN fs : sanitizeName(fs[f].name) \o ".json" = f
       /\ \A n2 \in StoreNames :
             LoadCall(n2) =>
                 /\ \A f \in DOMAIN fs :
                       sanitizeName(fs[f].name) = sanitizeName(n2) => data' = fs[f]
                 /\ ~data'.nil => sanitizeName(data'.name) = sanitizeName(n2)
                 /\ data'.nil =>
                       \A f \in DOMAIN fs : sanitizeName(fs[f].name) # sanitizeName(n2)
       /\ SavedStep =>
             /\ \A f \in DOMAIN fs :
                   IF sanitizeName(fs[f].name) = sanitizeName(data.name)
                   THEN fs'[f] = data'
                   ELSE fs'[f] = fs[f]
             /\ \A f \in DOMAIN fs' :
                   f \notin DOMAIN fs => /\ fs'[f] = data'
                                         /\ \A g \in DOMAIN fs :
                                               sanitizeName(fs[g].name)
                                                   # sanitizeName(data.name)]_vars

\* Load("MY PROJECT!") returned the record that was saved under
\* "My Project!" while another session's record is on disk.
LoadedUnderOtherSpelling ==
    /\ op = "read"
    /\ arg = "MY PROJECT!"
    /\ ~data.nil
    /\ data.name = "My Project!"
    /\ Exists(fs, "notes.json")
    /\ DOMAIN fs = {"my-project.json", "notes.json"}

\* The characters a slug is expected to have for the requested name `raw`:
\* the surrounding whitespace is cut, letters are lowercased, every space
\* left becomes a dash, and any other character than a-z, 0-9, '-', '_'
\* and '.' is left out.
ExpectedSlugChars(raw) ==
    LET n == Len(raw)
        solid == {i \in 1..n : ~IsSpace(Char(raw, i))}
        first == IF solid = {} THEN 1 ELSE CHOOSE i \in solid : \A j \in solid : i <= j
        last == IF solid = {} THEN 0 ELSE CHOOSE i \in solid : \A j \in solid : j <= i
        lower(c) ==
            IF \E k \in 1..26 : Char(UpperChars, k) = c
            THEN Char(LowerChars, CHOOSE k \in 1..26 : Char(UpperChars, k) = c)
            ELSE c
        inner == [i \in 1..(last - first + 1) |->
                     LET c == lower(Char(raw, first + i - 1))
                     IN  IF c = " " THEN "-" ELSE c]
        allowed(c) == \/ \E k \in 1..26 : Char(LowerChars, k) = c
                      \/ \E k \in 1..10 : Char(DigitChars, k) = c
                      \/ c \in {"-", "_", "."}
    IN  SelectSeq(inner, allowed)

\* `slug` is the expected slug of `raw`.
IsSlugOf(slug, raw) ==
    LET want == ExpectedSlugChars(raw)
    IN  /\ Len(slug) > 0
        /\ \A i \in 1..Len(slug) :
              \/ \E k \in 1..26 : Char(LowerChars, k) = Char(slug, i)
              \/ \E k \in 1..10 : Char(DigitChars, k) = Char(slug, i)
              \/ Char(slug, i) \in {"-", "_", "."}
        /\ IF want = <<>> THEN slug = "default"
           ELSE /\ Len(slug) = Len(want)
                /\ \A i \in 1..Len(want) : Char(slug, i) = want[i]

\* C20: for every requested name both sanitizers give a non-empty slug of
\* a-z, 0-9, '-', '_' and '.', obtained by trimming, lowercasing, turning
\* each inner space into '-' and dropping every other character; an empty,
\* blank or fully dropped name gives "default".
SlugIsSanitizedName ==
    /\ IsSlugOf(sanitizeName(arg), arg)
    /\ IsSlugOf(sanitizeSessionName(arg), arg)
    /\ op = "read" => /\ IsSlugOf(SubSeq(Path(arg), 1, Len(Path(arg)) - 5), arg)
                      /\ cmdErr \in {"", "open " \o Path(arg)
                                          \o ": no such file or directory"}
    /\ (op = "delete" /\ cmdErr # "cannot delete active session") =>
           cmdErr = "remove " \o sanitizeName(arg) \o ".json: no such file or directory"
    /\ \A n \in {"", " ", "\t ", "!", " ! ", "!!!"} :
           sanitizeName(n) = "default" /\ sanitizeSessionName(n) = "default"
    /\ sanitizeName("My Project!") = "my-project"

\* Store.Load was called with a name that has surrounding and inner
\* whitespace, upper case and characters to drop.
LoadedMixedName ==
    /\ op = "read"
    /\ arg = " Dev Box 2 "
    /\ cmdErr = "open dev-box-2.json: no such file or directory"

\* SessionState.Delete was called with a name made only of characters that
\* are dropped.
DeletedDroppedName ==
    /\ op = "delete"
    /\ arg = "!!!"
    /\ cmdErr = "cannot delete active session"

(***************************************************************************)
(* Store.List on a session directory that also holds an archive file and a *)
(* session file whose bytes do not decode.                                  *)
(***************************************************************************)
\* strings.HasSuffix
HasSuffix(s, suffix) ==
    /\ Len(s) >= Len(suffix)
    /\ SubSeq(s, Len(s) - Len(suffix) + 1, Len(s)) = suffix

\* The files Store.List appends a record for: regular files named *.json
\* whose content reads and decodes (NoData stands for bytes that do not).
ListedFiles(fsys) == {f \in DOMAIN fsys : HasSuffix(f, ".json") /\ ~fsys[f].nil}

\* The arrangements of the files in `files`, one place each.
Arrangements(files) ==
    {s \in [1..Cardinality(files) -> files] : \A i, j \in DOMAIN s : s[i] = s[j] => i = j}

\* A List whose comparison is Before: oldest first.
ListResultsOldestFirst(fsys) ==
    {[i \in DOMAIN s |-> fsys[s[i]]] : s \in
        {a \in Arrangements(ListedFiles(fsys)) :
            \A i, j \in DOMAIN a :
                i < j => ~(fsys[a[j]].updated_at < fsys[a[i]].updated_at)}}

\* Store.List: what sort.Slice with less = UpdatedAt.After can leave (it is
\* not stable: records saved at the same instant come in any order).
ListResults(fsys) ==
    {[i \in DOMAIN s |-> fsys[s[i]]] : s \in
        {a \in Arrangements(ListedFiles(fsys)) :
            \A i, j \in DOMAIN a :
                i < j => ~(fsys[a[j]].updated_at > fsys[a[i]].updated_at)}}

\* Store.List called by the caller.
ListCall ==
    /\ pc = "new"
    /\ op' = "list"
    /\ cmdErr' = ""
    /\ \E r \in ListResults(fs) : listed' = r
    /\ UNCHANGED <<pc, messages, tools, local, model, handler, chatVars, pre, name,
                   launches, lastCompact, twin, ui, fs, data, now, arg>>

\* What an earlier process left: a session, its archive, and a session file
\* cut short by a crash.
ListDisk ==
    [f \in {"old.json", "old_archive.txt", "broken.json"} |->
        CASE f = "old.json" ->
                 [name |-> "old", model |-> "m1", system_prompt |-> "Use the tools.",
                  messages |-> <<>>, archive_file |-> "old_archive.txt",
                  summary_file |-> "old_summary.md", created_at |-> 1,
                  updated_at |-> 1, nil |-> FALSE]
          [] f = "old_archive.txt" ->
                 <<[header |-> "Compaction at", at |-> 1, body |-> "USER: hi\n"]>>
          [] OTHER -> NoData]

InitList ==
    /\ Constructed
    /\ fs = ListDisk
    /\ now = 1
    /\ arg = ""
    /\ launches = 1

NextList ==
    \/ \E n \in StoreNames : NewRecord(n)
    \/ SaveCall
    \/ Tick(MaxClock)
    \/ ListCall

SpecList == InitList /\ [][NextList]_vars

\* C21: List returns the record of every session file that reads and
\* decodes exactly once, newest updated_at first, leaves out the files that do
\* not decode and the files that are not session files, and does not fail.
ListReturnsParsableNewestFirst ==
    op = "list" =>
        /\ cmdErr = ""
        /\ \A f \in ListedFiles(fs) :
               Cardinality({i \in DOMAIN listed : listed[i] = fs[f]}) = 1
        /\ Len(listed) = Cardinality(ListedFiles(fs))
        /\ \A i \in DOMAIN listed : ~listed[i].nil
        /\ \A i, j \in DOMAIN listed :
               i < j => listed[i].updated_at >= listed[j].updated_at

\* List has returned three records saved at different times while the broken
\* file and the archive are in the directory.
ListedThreeWithBrokenFile ==
    /\ op = "list"
    /\ Len(listed) = 3
    /\ listed[1].updated_at > listed[3].updated_at
    /\ Exists(fs, "broken.json")
    /\ Exists(fs, "old_archive.txt")

\* A /session delete has just run.
DeleteStep == pc = "prompt" /\ pc' = "prompt" /\ op' = "delete"

\* C22: once a session is active its record file exists in every state, and
\* a delete whose sanitized name is the active session's name is rejected
\* with an error and leaves every file as it was.
ActiveSessionNeverDeleted ==
    /\ [](name # "" => Exists(fs, Path(name)))
    /\ [][(DeleteStep /\ sanitizeSessionName(arg') = name)
              => (fs' = fs /\ cmdErr' = "cannot delete active session")]_vars

\* The user asked to delete the session "w" under another spelling while it
\* was active, with the default session also on disk.
DeleteOfActiveRejected ==
    /\ op = "delete"
    /\ pc = "prompt"
    /\ arg = "W!"
    /\ name = sanitizeSessionName("W!")
    /\ cmdErr = "cannot delete active session"
    /\ Exists(fs, Path(name))
    /\ Exists(fs, Path("default"))

\* A session name has just been accessed: the default session at startup,
\* or the name given to /session new or /session switch.
AccessStep ==
    \/ pc = "initialized" /\ pc' = "sessions"
    \/ pc = "prompt" /\ pc' = "prompt" /\ op' = "switch"

AccessedName == IF pc = "initialized" THEN "default" ELSE sanitizeSessionName(arg')

\* C23: accessing a name without a record saves a record under the sanitized
\* name with no messages, the current model and system prompt and the
\* archive and summary file names of the name, and makes it the active
\* session with only the system message; accessing a name with a record
\* keeps the stored messages (for the active session: the conversation).
FirstAccessCreatesRecord ==
    [][AccessStep =>
        LET f == Path(AccessedName)
            prompt == SystemPrompt(messages)
        IN  /\ name' = AccessedName
            /\ Exists(fs', f)
            /\ data' = fs'[f]
            /\ IF ~Exists(fs, f)
               THEN /\ fs'[f].name = AccessedName
                    /\ fs'[f].messages = <<>>
                    /\ fs'[f].model = model
                    /\ model' = model
                    /\ fs'[f].system_prompt = prompt
                    /\ fs'[f].archive_file = AccessedName \o "_archive.txt"
                    /\ fs'[f].summary_file = AccessedName \o "_summary.md"
                    /\ fs'[f].created_at = now
                    /\ messages' = <<Msg("system", prompt)>>
               ELSE /\ fs'[f].messages = IF AccessedName = name
                                         THEN FromOpenAIMessages(messages)
                                         ELSE fs[f].messages
                    /\ fs'[f].created_at = fs[f].created_at
                    /\ fs'[f].archive_file = fs[f].archive_file
                    /\ messages' = ToOpenAIMessages(prompt, fs'[f].messages)]_vars

\* The session "w" was created by its first access and left empty, and the
\* user has switched back to the default session, whose record kept its turn.
CreatedThenSwitchedBack ==
    /\ op = "switch"
    /\ pc = "prompt"
    /\ name = "default"
    /\ Len(data.messages) > 0
    /\ Exists(fs, Path("w"))
    /\ fs[Path("w")].messages = <<>>
    /\ fs[Path("w")].archive_file = "w_archive.txt"
    /\ Len(messages) > 1

(***************************************************************************)
(* The orchestrator embedded by a caller that registers local tools of its *)
(* own, before or after Initialize, next to the one initSessionState       *)
(* registers; the server may offer a tool called session_search itself.    *)
(***************************************************************************)
MaxTools == 3

ToolLists == {<<"list_dir">>, <<"list_dir", "session_search">>}
LocalToolNames == {"session_search", "list_dir"}

\* The model calls a discovered tool, the session tool and a tool nobody
\* offers.
RoutingResponses ==
    {Response("ok", <<>>),
     Response("", <<Call(1, "list_dir", "{}"), Call(2, "session_search", "")>>),
     Response("", <<Call(1, "grep", "{}")>>)}

\* Orchestrator.AddLocalTool called by the embedding program.
RegisterLocal(fname, cap) ==
    /\ pc \in {"new", "initialized"}
    /\ Len(tools) < cap
    /\ LET t == AddLocalTool(tools, local, fname)
       IN  /\ tools' = t.tools
           /\ local' = t.local
    /\ op' = "register"
    /\ UNCHANGED <<pc, messages, model, handler, chatVars, pre, sessionVars, launches,
                   cmdErr>>

NextTools ==
    \/ \E n \in LocalToolNames : RegisterLocal(n, MaxTools)
    \/ \E t \in ToolLists, i \in InstructionTexts : Initialize(t, i)
    \/ InitSessionState
    \/ StartREPL
    \/ ChatBegin("hi", MaxMsgs)
    \/ \E r \in RoutingResponses : LLMRespond(r.content, r.calls, MaxMsgs)
    \/ ToolStart
    \/ ToolReturn(RemoteOutcomes, LocalOutcomes)
    \/ AfterChat("none", "summary")
    \/ ExitCommand

SpecTools == Init /\ [][NextTools]_vars

\* What ran the last invocation: a local handler answers "ok" or "err", the
\* remote transport a result, a transport failure or a timeout.
RanLocally(out) == out.kind \in {"ok", "err"}
SentToRemote(out) == out.kind \in {"result", "transport", "timeout"}

\* C24: an invocation whose tool name has a local handler is run by that
\* handler and not sent to the remote transport, also when the server
\* offers a tool of that name; an invocation of any other name is sent to
\* the remote transport.
LocalHandlerShadowsRemote ==
    [][(pc = "invoking" /\ pc' # "invoking") =>
        IF toolCalls[idx].name \in local
        THEN RanLocally(lastOut') /\ ~SentToRemote(lastOut')
        ELSE SentToRemote(lastOut') /\ ~RanLocally(lastOut')]_vars

\* session_search was offered by the server and registered locally; the
\* call to it was answered by the local handler, the call to list_dir before
\* it by the server.
SharedNameRanLocally ==
    /\ pc \in {"llm", "tools"}
    /\ idx = 2
    /\ ~(idx \in inflight)
    /\ toolCalls[2].name = "session_search"
    /\ Cardinality({i \in DOMAIN tools : tools[i] = "session_search"}) = 2
    /\ ~("list_dir" \in local)
    /\ RanLocally(lastOut)
    /\ Len(messages) >= 2
    /\ messages[Len(messages)].role = "tool"
    /\ messages[Len(messages) - 1].role = "tool"

\* The names Orchestrator.Tools returns.
AdvertisedNames == {tools[i] : i \in DOMAIN tools}

\* C25: the advertised tool set holds every locally registered tool next to
\* the discovered ones, and no tool name more than once, after any order of
\* Initialize and AddLocalTool calls.
AdvertisedToolsAreUnionWithUniqueNames ==
    /\ local \subseteq AdvertisedNames
    /\ \A i, j \in DOMAIN tools : tools[i] = tools[j] => i = j

\* C26: a status event precedes every completion call, and every tool-start
\* event is followed at once by one tool-end event for the same tool, or is
\* the last event while its invocation is still running; so also when Chat
\* has returned, with a result or with an error.
EventsBracketInvocations ==
    handler = ConsoleCallbacks =>
        /\ pc = "llm" => /\ eventLog # <<>>
                         /\ eventLog[Len(eventLog)].kind = "status"
        /\ \A i \in DOMAIN eventLog :
               /\ eventLog[i].kind = "tool_start" =>
                      IF i < Len(eventLog)
                      THEN /\ eventLog[i + 1].kind = "tool_end"
                           /\ eventLog[i + 1].name = eventLog[i].name
                      ELSE pc = "invoking"
               /\ eventLog[i].kind = "tool_end" =>
                      /\ i > 1
                      /\ eventLog[i - 1].kind = "tool_start"

(***************************************************************************)
(* The interactive loop with every command that changes the conversation,  *)
(* the model or the active session.                                        *)
(***************************************************************************)
CommandSessionNames == {"w", "default"}
ModelIndexes == {5, 8}

\* The session directory an earlier process left after three turns on the
\* default session, the first of them with one tool call.
LongDisk ==
    LET first == <<Msg("system", "Use the tools.")>>
        r == loadOrCreate(defaultSessionName, <<>>, first, "zai-org/GLM-4.7-TEE", 1)
        turns == first \o
                 <<Msg("user", wrapUserTask("List files")),
                   AssistantMsg("", <<Call(1, "list_dir", "{}")>>),
                   ToolMsg("a.go", "c1"),
                   AssistantMsg("a.go", <<>>),
                   Msg("user", wrapUserTask("hi")),
                   AssistantMsg("ok", <<>>),
                   Msg("user", wrapUserTask("hi")),
                   AssistantMsg("ok", <<>>)>>
    IN  SaveFromOrchFs(r.fs, r.data, turns, r.model, 1)

InitCommands ==
    /\ Constructed
    /\ fs = LongDisk
    /\ now = 1
    /\ arg = ""
    /\ launches = 1

NextCommands ==
    \/ Initialize(<<"list_dir">>, "Use the tools.")
    \/ InitSessionState
    \/ StartREPL
    \/ ChatBegin("hi", MaxSessionMsgs)
    \/ LLMRespond("ok", <<>>, MaxSessionMsgs)
    \/ LLMFail
    \/ AfterChat("none", SummaryReply)
    \/ ResetCommand
    \/ ContextImport("notes.md", "short", MaxSessionMsgs)
    \/ \E f \in {"none", "summarize"} : CompactCommand(f, SummaryReply, MaxArchive)
    \/ \E i \in ModelIndexes : ModelCommand(i)
    \/ \E n \in CommandSessionNames : SessionSwitch(n)
    \/ ExitCommand

SpecCommands == InitCommands /\ [][NextCommands]_vars

\* Chat has been called and runREPL has not yet saved its outcome.
TurnInProgress == pc \in {"llm", "tools", "invoking", "returned"}

CommandOps == {"reset", "context", "compact", "model", "switch", "delete"}

\* The step runs a command: /reset, @context, /compact, /model or /session.
CommandStep ==
    /\ op' \in CommandOps
    /\ \/ op' # op
       \/ messages' # messages
       \/ fs' # fs
       \/ model' # model
       \/ name' # name

\* The step enters Chat.
TurnBegins == pc' = "llm" /\ nCompl' = 0 /\ pc # "llm"

\* C28: a turn begins and a command runs only while the loop waits for
\* input with no turn in progress; while a turn is in progress nothing but
\* that turn touches the conversation, the model, the session or the files;
\* and the loop waits for input again only after the turn's save.
OperationsAreSerialized ==
    [][/\ (TurnBegins \/ CommandStep) => (pc = "prompt" /\ ~TurnInProgress)
       /\ CommandStep => pc' = "prompt"
       /\ (TurnInProgress /\ TurnInProgress') =>
              /\ op' = "chat"
              /\ fs' = fs
              /\ model' = model
              /\ name' = name
              /\ Len(messages') >= Len(messages)
       /\ (TurnInProgress /\ ~TurnInProgress') =>
              /\ pc = "returned"
              /\ fs'[Path(name')].messages = FromOpenAIMessages(messages')]_vars

\* A turn on the session "w" has been saved after the default session was
\* compacted and the model was switched.
TurnAfterCommands ==
    /\ pc = "prompt"
    /\ op = "chat"
    /\ name = "w"
    /\ Len(messages) = 3
    /\ model = availableModels[5]
    /\ ArchiveEntries(fs, fs[Path("default")]) = 1
    /\ fs[Path("w")].messages = FromOpenAIMessages(messages)

\* C29: whenever the loop waits for input, the stored record of the active
\* session has the active model, the content of index 0 as system_prompt,
\* and the conversation without index 0 as messages.
RecordEqualsSnapshotAtPrompt ==
    pc = "prompt" =>
        /\ Exists(fs, Path(name))
        /\ fs[Path(name)].model = model
        /\ fs[Path(name)].system_prompt = SystemPrompt(messages)
        /\ fs[Path(name)].messages = FromOpenAIMessages(messages)

\* C30: each tool message answers a tool call of the nearest assistant
\* message before it, with only tool messages between the two.
ToolMessagesAnswerPrecedingAssistant ==
    \A i \in DOMAIN messages :
        messages[i].role = "tool" =>
            \E j \in 1..(i - 1) :
                /\ messages[j].role = "assistant"
                /\ \A k \in (j + 1)..(i - 1) : messages[k].role = "tool"
                /\ \E c \in DOMAIN messages[j].tool_calls :
                       messages[j].tool_calls[c].id = messages[i].tool_call_id

(***************************************************************************)
(* One turn run twice by a caller of the orchestrator: first with the      *)
(* console's handler, then, from the same conversation and with endpoints  *)
(* that give the same answers, with no handler or with callbacks missing.  *)
(***************************************************************************)
MaxTwinCalls == 2

\* What the completion endpoint answers to its k-th call of a run.
Answer(content, calls) == [fail |-> FALSE, content |-> content, calls |-> calls]
NoAnswer == [fail |-> TRUE, content |-> "", calls |-> <<>>]

LlmScripts ==
    {<<Answer("<think>t</think>ok", <<>>)>>,
     <<NoAnswer>>,
     <<Answer("", <<Call(1, "list_dir", "{}"), Call(2, "session_search", "")>>),
       Answer("done", <<>>)>>,
     <<Answer("", <<Call(1, "session_search", ""), Call(2, "list_dir", "{bad")>>)>>,
     <<Answer("", <<Call(1, "list_dir", "{}")>>), NoAnswer>>,
     <<Answer("", <<Call(1, "list_dir", "{}")>>),
       Answer("", <<Call(2, "session_search", "")>>),
       Answer("done", <<>>)>>}

\* What the MCP transport and the local handler answer to one invocation.
ToolAnswers ==
    {[remote |-> r, local |-> l] :
        r \in {Outcome("result", "", <<TextBlock("a.go")>>, FALSE),
               Outcome("transport", "", <<>>, FALSE)},
        l \in {Outcome("ok", "No archive content yet.", <<>>, FALSE),
               Outcome("err", "read archive: permission denied", <<>>, FALSE)}}

Scripts == [llm : LlmScripts, tool : [1..MaxTwinCalls -> ToolAnswers]]

\* The caller fixes what the endpoints will answer.
TwinStart(script) ==
    /\ pc = "prompt"
    /\ twin.phase = 0
    /\ twin' = [phase |-> 1, script |-> script, first |-> <<>>]
    /\ UNCHANGED <<pc, messages, tools, local, model, handler, chatVars, pre, op, fs,
                   name, data, launches, cmdErr, now, arg, lastCompact, listed, ui>>

\* Orchestrator.Chat is entered, in the first or in the second run.
TwinChat(userMsg, cap) ==
    /\ twin.phase \in {1, 2}
    /\ ChatBegin(userMsg, cap)

\* The completion endpoint gives its scripted answer.
TwinLLM(cap) ==
    /\ twin.phase \in {1, 2}
    /\ nCompl < Len(twin.script.llm)
    /\ LET answer == twin.script.llm[nCompl + 1]
       IN  IF answer.fail THEN LLMFail
           ELSE LLMRespond(answer.content, answer.calls, cap)

\* The invocation gives its scripted answer.
TwinToolReturn ==
    /\ twin.phase \in {1, 2}
    /\ nInvoke \in 1..MaxTwinCalls
    /\ LET answer == twin.script.tool[nInvoke]
       IN  ToolReturn({answer.remote}, {answer.local})

\* What Chat left when it returned.
RunOutcome ==
    [messages |-> messages, result |-> result, nCompl |-> nCompl, nInvoke |-> nInvoke,
     toolChoice |-> toolChoice, lastOut |-> lastOut]

\* After the first run the caller puts the conversation back with
\* ReplaceMessages and installs another handler with SetEventHandler: nil,
\* or one with some callbacks missing.
Replay(callbacks) ==
    /\ pc = "returned"
    /\ twin.phase = 1
    /\ twin' = [twin EXCEPT !.phase = 2, !.first = RunOutcome]
    /\ messages' = pre
    /\ handler' = callbacks
    /\ pc' = "prompt"
    /\ op' = "replay"
    /\ UNCHANGED <<tools, local, model, chatVars, pre, fs, name, data, launches, cmdErr,
                   now, arg, lastCompact, listed, ui>>

NextTwin ==
    \/ Initialize(<<"list_dir">>, "Use the tools.")
    \/ InitSessionState
    \/ StartREPL
    \/ \E s \in Scripts : TwinStart(s)
    \/ TwinChat("List files", MaxMsgs)
    \/ TwinLLM(MaxMsgs)
    \/ ToolStart
    \/ TwinToolReturn
    \/ \E c \in (SUBSET ConsoleCallbacks) \ {ConsoleCallbacks} : Replay(c)

SpecTwin == Init /\ [][NextTwin]_vars

\* C27: with the same user input and the same answers of the completion
\* endpoint and of the tools, the run without a handler, or with callbacks
\* missing, leaves the same conversation, has made as many completion calls
\* and invocations with the same last tool choice and the same last answer,
\* and returns the same text or error as the run with the handler.
EventsAreAdvisory ==
    (twin.phase = 2 /\ pc = "returned") => RunOutcome = twin.first

\* The second run, with only OnStatus set, has returned after two
\* invocations, and the first run had delivered all of its events.
ReplayedWithoutToolCallbacks ==
    /\ twin.phase = 2
    /\ pc = "returned"
    /\ handler = {"OnStatus"}
    /\ nInvoke = 2
    /\ result.status = "ok"
    /\ \A i \in DOMAIN eventLog : eventLog[i].kind = "status"
    /\ Len(eventLog) = twin.first.nCompl

\* C31: at every point of Chat, and when it has returned, the conversation
\* of before the call is an unchanged prefix of the conversation, the first
\* message after it is the user message wrapping the input, and every step
\* of the turn only appends.
HistoryIsAppendOnlyDuringTurn ==
    /\ [](TurnInProgress =>
            /\ IsPrefix(pre, messages)
            /\ Len(messages) > Len(pre)
            /\ \E u \in UserTexts :
                   messages[Len(pre) + 1] = Msg("user", wrapUserTask(u)))
    /\ [][(TurnInProgress /\ TurnInProgress') => IsPrefix(messages, messages')]_vars

\* Chat has returned an error after a tool round: the conversation of
\* before the call is followed by the user message, the assistant message
\* with its call and the tool message.
ReturnedErrorAfterAppends ==
    /\ pc = "returned"
    /\ result.status = "err"
    /\ Len(pre) >= 3
    /\ Len(messages) >= Len(pre) + 3
    /\ messages[Len(pre) + 1].role = "user"
    /\ messages[Len(messages)].role = "tool"

(***************************************************************************)
(* The tool-choice directive, for user texts with and without trigger      *)
(* phrases and servers offering different tools; the orchestrator is also  *)
(* used by a caller that registers no local tool.                          *)
(***************************************************************************)
ChoiceTexts ==
    {"List files", "please READ FILE and list dir", "Activate Project then search",
     "search", "hello", "find file readme", "Create a script", ""}

ChoiceToolLists ==
    {<<>>, <<"list_dir">>, <<"list_dir", "read_file">>, <<"search_for_pattern">>,
     <<"create_text_file", "find_file", "search_for_pattern", "list_dir", "read_file",
       "activate_project">>}

InitChoice ==
    /\ Constructed
    /\ fs = <<>>
    /\ now = 1
    /\ arg \in ChoiceTexts
    /\ launches = 1

\* A caller that uses the orchestrator without sessions: Chat is called
\* right after Initialize.
ChatWithoutSessions ==
    /\ pc = "initialized"
    /\ pc' = "prompt"
    /\ op' = "embed"
    /\ UNCHANGED <<messages, tools, local, model, handler, chatVars, pre, sessionVars,
                   launches, cmdErr>>

NextChoice ==
    \/ \E t \in ChoiceToolLists : Initialize(t, "Use the tools.")
    \/ InitSessionState
    \/ StartREPL
    \/ ChatWithoutSessions
    \/ ChatBegin(arg, MaxMsgs)
    \/ \E r \in {Response("ok", <<>>), Response("", <<Call(1, "list_dir", "{}")>>)} :
           LLMRespond(r.content, r.calls, MaxMsgs)
    \/ ToolStart
    \/ ToolReturn(RemoteOutcomes, LocalOutcomes)

SpecChoice == InitChoice /\ [][NextChoice]_vars

\* The trigger phrases and the tool each rule forces, in the rule order.
ChoiceRules ==
    <<[phrases |-> {"activate project", "activate_project"}, tool |-> "activate_project"],
      [phrases |-> {"readme", "read file", "read the file"}, tool |-> "read_file"],
      [phrases |-> {"list files", "list dir", "list directory"}, tool |-> "list_dir"],
      [phrases |-> {"find file"}, tool |-> "find_file"],
      [phrases |-> {"search"}, tool |-> "search_for_pattern"],
      [phrases |-> {"create a script", "create script", "create a file", "write a file"},
       tool |-> "create_text_file"]>>

\* The rules that apply to a user text with the advertised tools.
MatchingRules(userMsg) ==
    {i \in DOMAIN ChoiceRules :
        /\ \E p \in ChoiceRules[i].phrases : Contains(ToLower(userMsg), p)
        /\ ChoiceRules[i].tool \in AdvertisedNames}

\* C32: the first completion call of a turn carries no directive when no
\* tools are advertised, the tool of the first applying rule when a trigger
\* phrase is in the text and that tool is advertised, and "auto" otherwise;
\* every later call carries "auto"; a forced tool is an advertised tool.
ToolChoiceFollowsRules ==
    pc = "llm" =>
        /\ nCompl = 0 =>
               /\ tools = <<>> =>
                      /\ toolChoice = ToolChoiceNil
                      /\ RequestToolChoice(toolChoice).type = "unset"
               /\ (tools # <<>> /\ MatchingRules(arg) = {}) => toolChoice = ToolChoiceAuto
               /\ (tools # <<>> /\ MatchingRules(arg) # {}) =>
                      \E i \in MatchingRules(arg) :
                          /\ \A j \in MatchingRules(arg) : i <= j
                          /\ toolChoice = ToolChoiceFn(ChoiceRules[i].tool)
        /\ nCompl > 0 => toolChoice = ToolChoiceAuto
        /\ toolChoice.type = "function" => toolChoice.name \in AdvertisedNames

\* The text names read file and list dir, and the server offers list_dir
\* but not read_file: the first call is about to be made with list_dir
\* forced.
SecondRuleForcedListDir ==
    /\ pc = "llm"
    /\ nCompl = 0
    /\ arg = "please READ FILE and list dir"
    /\ ~("read_file" \in AdvertisedNames)
    /\ toolChoice = ToolChoiceFn("list_dir")

(***************************************************************************)
(* Switching between sessions while the clock advances and the model is    *)
(* changed.                                                                 *)
(***************************************************************************)
NextSwitch ==
    \/ Initialize(<<"list_dir">>, "Use the tools.")
    \/ InitSessionState
    \/ StartREPL
    \/ ChatBegin("hi", MaxSessionMsgs)
    \/ LLMRespond("ok", <<>>, MaxSessionMsgs)
    \/ AfterChat("none", "summary")
    \/ ModelCommand(5)
    \/ \E n \in RawSessionNames : SessionSwitch(n)
    \/ Tick(MaxClock)
    \/ ExitCommand

SpecSwitch == Init /\ [][NextSwitch]_vars

\* A /session new or /session switch has just run.
SwitchStep == pc = "prompt" /\ pc' = "prompt" /\ op' = "switch" /\ now' = now

\* The switch from the active session to another one: the conversation is
\* the system message and the target's stored messages, the model is the
\* target's stored model, and the record left behind is untouched.
SwitchedToOther(target) ==
    LET stored == IF Exists(fs, Path(target)) THEN fs[Path(target)].messages ELSE <<>>
    IN  /\ name' = target
        /\ messages' = ToOpenAIMessages(SystemPrompt(messages), stored)
        /\ (Exists(fs, Path(target)) /\ fs[Path(target)].model # "")
               => model' = fs[Path(target)].model
        /\ fs'[Path(name)] = fs[Path(name)]

\* C33 as stated: a switch to another session loads it and leaves the record
\* of the session left behind as it was, and a switch to the active name
\* changes nothing.
SwitchToActiveChangesNothing ==
    [][SwitchStep =>
        LET target == sanitizeSessionName(arg')
        IN  IF target = name
            THEN /\ messages' = messages
                 /\ model' = model
                 /\ name' = name
                 /\ data' = data
                 /\ fs' = fs
            ELSE SwitchedToOther(target)]_vars

\* C33: a switch to another session loads it and leaves the record of the
\* session left behind as it was; a switch to the active name keeps the
\* conversation, the model and the active name, and saves the active record
\* again: only that file is written, as the snapshot of the live state with
\* updated_at set to the time of the command.
SwitchToActiveOnlySavesAgain ==
    [][SwitchStep =>
        LET target == sanitizeSessionName(arg')
        IN  IF target = name
            THEN /\ messages' = messages
                 /\ model' = model
                 /\ name' = name
                 /\ \A f \in DOMAIN fs \ {Path(name)} : f \in DOMAIN fs' /\ fs'[f] = fs[f]
                 /\ DOMAIN fs' = DOMAIN fs
                 /\ fs'[Path(name)] =
                        [fs[Path(name)] EXCEPT !.messages = FromOpenAIMessages(messages),
                                               !.model = model,
                                               !.system_prompt = SystemPrompt(messages),
                                               !.updated_at = now]
                 /\ data' = fs'[Path(name)]
            ELSE SwitchedToOther(target)]_vars

\* The user switched back from "w", whose model had been changed, to the
\* default session: its turn is in the conversation and its model is back.
SwitchedBackToStoredModel ==
    /\ pc = "prompt"
    /\ op = "switch"
    /\ name = "default"
    /\ Len(messages) = 3
    /\ model = "zai-org/GLM-4.7-TEE"
    /\ Exists(fs, Path("w"))
    /\ fs[Path("w")].model = availableModels[5]
    /\ Len(fs[Path("w")].messages) = 2

\* C34: a /compact that returns an error, at whichever step, leaves the
\* conversation, the archive file and the summary file as they were.
FailedCompactionChangesNothing ==
    [][((\E f \in Faults, r \in SummaryReplies : CompactCommand(f, r, MaxCompactions))
            /\ cmdErr' # "") =>
          /\ messages' = messages
          /\ DefaultArchive(fs') = DefaultArchive(fs)
          /\ DefaultSummary(fs') = DefaultSummary(fs)]_vars

(***************************************************************************)
(* SessionState.SearchArchive, and a session that is compacted, deleted    *)
(* and created again under the same name.                                  *)
(***************************************************************************)
\* The text of an archive file: what AppendArchive wrote, entry by entry
\* (the time stamp is written as the clock value).
RECURSIVE ArchiveText(_)
ArchiveText(entries) ==
    IF entries = <<>> THEN ""
    ELSE "\n---\n" \o Head(entries).header \o " " \o ToString(Head(entries).at)
         \o "\n---\n" \o Head(entries).body \o ArchiveText(Tail(entries))

\* bufio.Scanner with ScanLines: the lines of a text, without their ends.
RECURSIVE SplitLines(_)
SplitLines(s) ==
    IF s = "" THEN <<>>
    ELSE LET i == IndexFrom(s, "\n", 1)
             DropCR(l) == IF Len(l) > 0 /\ Char(l, Len(l)) = "\r"
                          THEN SubSeq(l, 1, Len(l) - 1) ELSE l
         IN  IF i = 0 THEN <<DropCR(s)>>
             ELSE <<DropCR(SubSeq(s, 1, i - 1))>> \o SplitLines(SubSeq(s, i + 1, Len(s)))

\* strings.Join(lines, "\n")
RECURSIVE JoinLines(_)
JoinLines(lines) ==
    IF lines = <<>> THEN ""
    ELSE IF Len(lines) = 1 THEN lines[1]
    ELSE lines[1] \o "\n" \o JoinLines(Tail(lines))

\* SessionState.SearchArchive on a readable archive.
SearchArchive(fsys, dat, query, maxResults) ==
    LET path == ArchivePath(dat)
        queryLower == ToLower(query)
        max == IF maxResults <= 0 THEN 10 ELSE maxResults
    IN  IF path = "" THEN "No archive file for this session."
        ELSE IF ~Exists(fsys, path) THEN "No archive content yet."
        ELSE IF queryLower = "" THEN "Query is empty."
        ELSE LET lines == SplitLines(ArchiveText(fsys[path]))
                 hits == {n \in DOMAIN lines : Contains(ToLower(lines[n]), queryLower)}
                 first == {n \in hits : Cardinality({m \in hits : m < n}) < max}
                 RECURSIVE Listed(_)
                 Listed(n) ==
                     IF n > Len(lines) THEN <<>>
                     ELSE (IF n \in first THEN <<ToString(n) \o ": " \o lines[n]>> ELSE <<>>)
                          \o Listed(n + 1)
             IN  IF hits = {} THEN "No matches found in session archive."
                 ELSE JoinLines(Listed(1))

\* What the session_search handler returns for a query on the active
\* session.
SessionSearchOutcome(query) == Outcome("ok", SearchArchive(fs, data, query, 10), <<>>, FALSE)

\* The session directory an earlier process left after three turns on the
\* session "w", the first of them with one tool call.
WorkDisk ==
    LET first == <<Msg("system", "Use the tools.")>>
        r == loadOrCreate("w", <<>>, first, "zai-org/GLM-4.7-TEE", 1)
        turns == first \o
                 <<Msg("user", wrapUserTask("List files")),
                   AssistantMsg("", <<Call(1, "list_dir", "{}")>>),
                   ToolMsg("a.go", "c1"),
                   AssistantMsg("a.go", <<>>),
                   Msg("user", wrapUserTask("hi")),
                   AssistantMsg("ok", <<>>),
                   Msg("user", wrapUserTask("hi")),
                   AssistantMsg("ok", <<>>)>>
    IN  SaveFromOrchFs(r.fs, r.data, turns, r.model, 1)

InitDelete ==
    /\ Constructed
    /\ fs = WorkDisk
    /\ now = 1
    /\ arg = ""
    /\ launches = 1

NextDelete ==
    \/ Initialize(<<"list_dir">>, "Use the tools.")
    \/ InitSessionState
    \/ StartREPL
    \/ CompactCommand("none", SummaryReply, MaxArchive)
    \/ \E n \in CommandSessionNames : SessionSwitch(n)
    \/ SessionDelete("w")
    \/ ChatBegin("hi", MaxMsgs)
    \/ \E r \in {Response("ok", <<>>),
                 Response("", <<Call(1, "session_search", "{\"query\":\"list\"}")>>)} :
           LLMRespond(r.content, r.calls, MaxMsgs)
    \/ ToolStart
    \/ ToolReturn(RemoteOutcomes, {SessionSearchOutcome("list")})
    \/ AfterChat("none", SummaryReply)
    \/ ExitCommand

SpecDelete == InitDelete /\ [][NextDelete]_vars

\* The session "w" of the earlier process is gone and a session of that name
\* has been created since: only the earlier one had eight stored messages,
\* seven once compacted.
CreatedAgain ==
    /\ Exists(fs, Path("w"))
    /\ Len(fs[Path("w")].messages) < 7

\* C35: a delete that succeeds removes the record file of the session and
\* nothing else; a session created afterwards under the name has the archive
\* file name of the deleted one, the creation leaves that file as it is, and
\* a search of the new session's archive finds the lines the deleted
\* session archived.
DeleteKeepsArchiveForNextSession ==
    /\ [][(DeleteStep /\ cmdErr' = "") =>
            LET target == sanitizeSessionName(arg')
            IN  /\ DOMAIN fs' = DOMAIN fs \ {Path(target)}
                /\ Exists(fs, Path(target))
                /\ \A f \in DOMAIN fs' : fs'[f] = fs[f]]_vars
    /\ [][(pc = "prompt" /\ op' = "switch" /\ ~Exists(fs, Path("w")) /\ name' = "w") =>
            /\ data'.archive_file = "w_archive.txt"
            /\ \A f \in DOMAIN fs : fs'[f] = fs[f]]_vars
    /\ []((CreatedAgain /\ name = "w" /\ Exists(fs, "w_archive.txt")) =>
            /\ ArchivePath(data) = "w_archive.txt"
            /\ HasPrefix(SearchArchive(fs, data, "list", 10), "8: List files\n")
            /\ Contains(SearchArchive(fs, data, "list", 10), ": tool_call: list_dir")
            /\ pc = "llm" /\ lastOut.kind = "ok" =>
                   lastOut.text = SearchArchive(fs, data, "list", 10))

\* The session "w" was compacted, deleted and created again, and in its
\* first turn session_search returned lines of the deleted session's archive.
NewSessionReadOldArchive ==
    /\ CreatedAgain
    /\ name = "w"
    /\ pc = "llm"
    /\ lastOut.kind = "ok"
    /\ Contains(lastOut.text, "List files")
    /\ Len(fs["w_archive.txt"]) = 1

(***************************************************************************)
(* A switch to a session whose record file cannot be decoded.              *)
(***************************************************************************)
\* The session directory holds a record file for "w" that is not a record.
DamagedDisk == [f \in {"w.json"} |-> NoData]

InitDamaged ==
    /\ Constructed
    /\ fs = DamagedDisk
    /\ now = 1
    /\ arg = ""
    /\ launches = 1

SpecDamaged == InitDamaged /\ [][NextSwitch]_vars

\* The switch command names a session other than the active one whose record
\* file is there and does not decode.
SwitchToDamaged ==
    /\ SwitchStep
    /\ sanitizeSessionName(arg') # name
    /\ Exists(fs, Path(sanitizeSessionName(arg')))
    /\ fs[Path(sanitizeSessionName(arg'))].nil

\* C36: a switch to a session whose record file is there and cannot be
\* decoded returns the error of the load and changes nothing: the active
\* name, the record in memory, the model, the conversation and every file
\* are as before, so the damaged file is not overwritten.
FailedLoadChangesNothing ==
    [][SwitchToDamaged =>
         /\ HasPrefix(cmdErr', "parse session: ")
         /\ name' = name
         /\ data' = data
         /\ model' = model
         /\ messages' = messages
         /\ fs' = fs]_vars

\* After a turn and a model change on the default session, the switch to
\* "w" has just returned the load error.
SwitchRefusedOnDamagedRecord ==
    /\ op = "switch"
    /\ arg = "w"
    /\ HasPrefix(cmdErr, "parse session: ")
    /\ name = "default"
    /\ Len(messages) = 3
    /\ model = availableModels[5]
    /\ fs["w.json"].nil

\* C39: the store's sanitizer and the caller layer's return the same slug
\* for the name given, each returns a slug unchanged, and so the active name
\* is the name of the file the store uses for it; a delete is refused as
\* being of the active session exactly when the store would have removed
\* the active session's file.
SanitizersAgreeAndAreIdempotent ==
    /\ sanitizeName(arg) = sanitizeSessionName(arg)
    /\ sanitizeName(sanitizeName(arg)) = sanitizeName(arg)
    /\ sanitizeSessionName(sanitizeSessionName(arg)) = sanitizeSessionName(arg)
    /\ sanitizeName(sanitizeSessionName(arg)) = sanitizeSessionName(arg)
    /\ name # "" => /\ sanitizeName(name) = name
                    /\ Path(name) = name \o ".json"
    /\ op = "delete" =>
           (cmdErr = "cannot delete active session" <=> Path(arg) = Path(name))

\* A delete was given a name of blanks and a dropped character, which both
\* sanitizers turn into the active session's name, and was refused.
DeleteOfBlankNameRefused ==
    /\ op = "delete"
    /\ arg = "\t! "
    /\ name = "default"
    /\ cmdErr = "cannot delete active session"
    /\ Exists(fs, "default.json")

(***************************************************************************)
(* Termination of Chat.                                                    *)
(***************************************************************************)
\* The completion endpoint returns a response without tool calls.
FinalResponse ==
    \E r \in {x \in Responses : x.calls = <<>>} : LLMRespond(r.content, r.calls, MaxMsgs)

\* The program of Spec where every tool invocation that was started returns,
\* the loop goes on to the next call, and the completion endpoint, asked
\* again and again, at some point answers without tool calls.
SpecLive ==
    /\ Init
    /\ [][Next]_vars
    /\ WF_vars(ToolStart)
    /\ WF_vars(ToolReturn(RemoteOutcomes, LocalOutcomes))
    /\ SF_vars(FinalResponse)

\* Chat is running: it has not returned yet.
ChatRunning == op = "chat" /\ pc \in {"llm", "tools", "invoking"}

\* C37: a Chat that is running returns at some point; and the loop counts
\* nothing: after the last tool result of a batch it calls the completion
\* endpoint again, and after a response with tool calls it runs them,
\* however many round trips the turn has made.
ChatEventuallyReturns ==
    /\ ChatRunning ~> (pc = "returned")
    /\ [][(pc = "invoking" /\ idx = Len(toolCalls) /\ result'.status # "err") =>
            (pc' = "llm" /\ nCompl' = nCompl)]_vars
    /\ [][(pc = "llm" /\ nCompl' = nCompl + 1 /\ result'.status # "err") =>
            IF toolCalls' = <<>>
            THEN pc' = "returned" /\ result'.status = "ok"
            ELSE pc' = "tools" /\ idx' = 1]_vars

\* Chat returned an answer after three completion calls and two tool
\* round trips.
ReturnedAfterTwoRoundTrips ==
    /\ pc = "returned"
    /\ result.status = "ok"
    /\ nCompl = 3
    /\ nInvoke = 2
    /\ Len(messages) = Len(pre) + 6

(***************************************************************************)
(* ConsoleUI: the event handlers, StopSpinner and the spinner goroutine.   *)
(***************************************************************************)
MaxSpinners == 2    \* SpecSpinner: spinners started in a run

\* A stop that closes the channel and keeps it in spinnerStop.
stopSpinnerLockedKeepingChannel(u) ==
    IF u.spinnerStop = 0 THEN u
    ELSE [u EXCEPT !.closes[u.spinnerStop] = IF @ < 2 THEN @ + 1 ELSE @]

\* stopSpinnerLocked: close(ui.spinnerStop) and set it to nil, when not nil.
\* A second close of a channel panics; the count shows it.
stopSpinnerLocked(u) ==
    IF u.spinnerStop = 0 THEN u
    ELSE [u EXCEPT !.closes[u.spinnerStop] = IF @ < 2 THEN @ + 1 ELSE @,
                   !.spinnerStop = 0]

\* startSpinnerLocked: stop the spinner there is, make a channel, keep it in
\* spinnerStop and start the goroutine on it.
startSpinnerLocked(u) ==
    LET s == stopSpinnerLocked(u)
    IN  [s EXCEPT !.made = @ + 1,
                  !.spinnerStop = s.made + 1,
                  !.closes = Append(@, 0),
                  !.spin = Append(@, [at |-> "select", frame |-> 0])]

\* The calls into the ConsoleUI: StopSpinner and the three callbacks,
\* handleStatus with a "thinking" message and with another one.
UiCalls == {"StopSpinner", "handleStatus thinking", "handleStatus", "handleToolStart",
            "handleToolEnd"}

\* The body of each call between Lock and Unlock, as far as the spinner goes.
UiBodyOf(call, u) ==
    IF call = "handleStatus thinking" THEN startSpinnerLocked(u) ELSE stopSpinnerLocked(u)

\* Caller c enters a call; it is now at ui.mu.Lock().
UiCall(c, call) ==
    /\ handler = ConsoleCallbacks
    /\ ui.at[c] = "idle"
    /\ call = "handleStatus thinking" =>
           ui.made + Cardinality({d \in Callers : /\ ui.at[d] \in {"lock", "locked"}
                                                  /\ ui.doing[d] = call}) < MaxSpinners
    /\ ui' = [ui EXCEPT !.at[c] = "lock", !.doing[c] = call]
    /\ UNCHANGED <<pc, messages, tools, local, model, handler, chatVars, pre, op, fs,
                   name, data, launches, cmdErr, now, arg, lastCompact, listed, twin>>

\* ui.mu.Lock() returns: the mutex was free.
UiLock(c) ==
    /\ ui.at[c] = "lock"
    /\ ui.mu = 0
    /\ ui' = [ui EXCEPT !.mu = c, !.at[c] = "locked"]
    /\ UNCHANGED <<pc, messages, tools, local, model, handler, chatVars, pre, op, fs,
                   name, data, launches, cmdErr, now, arg, lastCompact, listed, twin>>

\* The body of the call, under the mutex.
UiBody(c) ==
    /\ ui.at[c] = "locked"
    /\ ui' = [UiBodyOf(ui.doing[c], ui) EXCEPT !.at[c] = "unlock"]
    /\ UNCHANGED <<pc, messages, tools, local, model, handler, chatVars, pre, op, fs,
                   name, data, launches, cmdErr, now, arg, lastCompact, listed, twin>>

\* The deferred ui.mu.Unlock(), and the call returns.
UiUnlock(c) ==
    /\ ui.at[c] = "unlock"
    /\ ui' = [ui EXCEPT !.mu = 0, !.at[c] = "idle", !.doing[c] = ""]
    /\ UNCHANGED <<pc, messages, tools, local, model, handler, chatVars, pre, op, fs,
                   name, data, launches, cmdErr, now, arg, lastCompact, listed, twin>>

\* The goroutine of the g-th spinner takes the ticker case of its select
\* and prints the next frame; select may take it also when the stop channel
\* is closed.
SpinnerFrame(g) ==
    /\ g \in 1..ui.made
    /\ ui.spin[g].at = "select"
    /\ ui' = [ui EXCEPT !.spin[g].frame = (@ + 1) % 4]
    /\ UNCHANGED <<pc, messages, tools, local, model, handler, chatVars, pre, op, fs,
                   name, data, launches, cmdErr, now, arg, lastCompact, listed, twin>>

\* The goroutine takes the stop case, which a closed channel makes ready,
\* clears the line and returns; its frame counter goes with it.
SpinnerExit(g) ==
    /\ g \in 1..ui.made
    /\ ui.spin[g].at = "select"
    /\ ui.closes[g] > 0
    /\ ui' = [ui EXCEPT !.spin[g] = [at |-> "exited", frame |-> 0]]
    /\ UNCHANGED <<pc, messages, tools, local, model, handler, chatVars, pre, op, fs,
                   name, data, launches, cmdErr, now, arg, lastCompact, listed, twin>>

NextSpinner ==
    \/ Initialize(<<"list_dir">>, "Use the tools.")
    \/ InitSessionState
    \/ StartREPL
    \/ \E c \in Callers, call \in UiCalls : UiCall(c, call)
    \/ \E c \in Callers : UiLock(c)
    \/ \E c \in Callers : UiBody(c)
    \/ \E c \in Callers : UiUnlock(c)
    \/ \E g \in 1..MaxSpinners : SpinnerFrame(g)
    \/ \E g \in 1..MaxSpinners : SpinnerExit(g)

\* A caller that holds the mutex goes on to Unlock, sync.Mutex hands the
\* mutex to a caller that keeps waiting for it, and select takes a case
\* that stays ready.
SpecSpinner ==
    /\ Init
    /\ [][NextSpinner]_vars
    /\ \A c \in Callers : /\ SF_vars(UiLock(c))
                          /\ WF_vars(UiBody(c))
                          /\ WF_vars(UiUnlock(c))
    /\ \A g \in 1..MaxSpinners : WF_vars(SpinnerExit(g))

\* The spinners that have not been told to stop.
Unstopped == {g \in 1..ui.made : ui.closes[g] = 0}

\* C38: no stop channel is closed twice; at most one spinner has not been
\* told to stop, and it is the one in spinnerStop; when the body of a call
\* other than a "thinking" status is done every spinner has been told to
\* stop once; a goroutine exits only when told to; the mutex is held by a
\* caller inside a call, never by a goroutine, and a caller that holds it
\* or finds it free can take its next step whatever the goroutines do;
\* every call returns; and a goroutine whose channel is closed exits.
SpinnerStopsOnceAndNeverBlocks ==
    /\ [](/\ \A g \in 1..ui.made : ui.closes[g] <= 1
          /\ Cardinality(Unstopped) <= 1
          /\ Unstopped = IF ui.spinnerStop = 0 THEN {} ELSE {ui.spinnerStop}
          /\ \A c \in Callers :
                (ui.at[c] = "unlock" /\ ui.doing[c] # "handleStatus thinking") =>
                    \A g \in 1..ui.made : ui.closes[g] = 1
          /\ \A g \in 1..ui.made : ui.spin[g].at = "exited" => ui.closes[g] = 1
          /\ ui.mu # 0 => ui.at[ui.mu] \in {"locked", "unlock"}
          /\ \A c \in Callers :
                /\ (ui.at[c] = "lock" /\ ui.mu = 0) => ENABLED UiLock(c)
                /\ ui.at[c] = "locked" => ENABLED UiBody(c)
                /\ ui.at[c] = "unlock" => ENABLED UiUnlock(c))
    /\ \A c \in Callers : (ui.at[c] # "idle") ~> (ui.at[c] = "idle")
    /\ \A g \in 1..MaxSpinners :
          (g <= ui.made /\ ui.closes[g] = 1) ~> (g <= ui.made /\ ui.spin[g].at = "exited")

\* A second spinner was started while the goroutine of the first, told to
\* stop, was still printing frames; then a StopSpinner call closed the
\* channel of the second, whose goroutine has exited, and is about to
\* unlock while the other caller waits for the mutex.
SecondSpinnerStoppedWhileFirstStillRuns ==
    /\ ui.made = 2
    /\ ui.closes = <<1, 1>>
    /\ ui.spinnerStop = 0
    /\ ui.spin[1].at = "select" /\ ui.spin[1].frame = 2
    /\ ui.spin[2].at = "exited"
    /\ ui.at[1] = "unlock" /\ ui.doing[1] = "StopSpinner"
    /\ ui.at[2] = "lock"

====
